---- MODULE Spec2Model ----
(***************************************************************************)
(* A model of the MCP router's request-routing fabric:                     *)
(*   - router/circuit_breaker.py : CircuitBreaker, CircuitBreakerRegistry   *)
(*   - router/registry.py        : ServerRegistry.call and its dispatch     *)
(*   - router/adapters/stdio.py  : StdioAdapter.call, _restart, stop        *)
(* Each component has its own specification (SpecBreaker, SpecRegistry,    *)
(* SpecStdio); the variables of the components a specification does not    *)
(* exercise stay at their initial values.                                  *)
(***************************************************************************)
EXTENDS Integers, Sequences, FiniteSets, TLC

VARIABLES
    \* ---- clock shared by the breaker and the registry (datetime.now())
    now,
    \* ---- a single CircuitBreaker object (SpecBreaker)
    breaker,      \* the object's fields
    b_op,         \* history: the last method called on it
    b_ret,        \* history: what the last can_execute() returned
    b_pre,        \* history: the fields before the last method call
    b_streak,     \* history: record_failure() calls since the last
                  \* record_success(), reset() or construction
    b_opens       \* history: OPEN -> HALF_OPEN transitions since the
                  \* breaker last entered OPEN

VARIABLES
    \* ---- the ServerRegistry (SpecRegistry)
    servers,        \* self.servers: name -> ServerConfig (fixed after load)
    http_client,    \* whether self.http_client is set
    started,        \* whether initialize() has run
    stdio_adapters, \* the names that have an entry in self.stdio_adapters
    circuit_breakers,  \* CircuitBreakerRegistry.breakers: name -> breaker
    id_gen,         \* per stdio adapter: the next value of _request_id_gen
    calls,          \* per task: the ServerRegistry.call it is suspended in
    r_streak,       \* history, per server: upstream failures recorded by
                    \* call() since the last success or reset
    r_event         \* history: what the last step did, when it was a step
                    \* of a ServerRegistry.call

\* One StdioAdapter and the child process it manages (SpecStdio)
VARIABLES
    process,        \* StdioAdapter.process: NoneObj, or the child: whether it
                    \* runs, its returncode as the event loop knows it, the
                    \* request lines in its stdin pipe and the response lines
                    \* in its stdout pipe
    restart_count,  \* StdioAdapter.restart_count
    lock,           \* StdioAdapter._lock: its owner and the queue of waiters
    request_id_gen, \* the next value of StdioAdapter._request_id_gen
    s_calls,        \* per task: where it is in StdioAdapter.call
    s_ncalls,       \* number of calls of StdioAdapter.call made so far
    s_noid,         \* number of those calls whose request had no id
    s_assigned,     \* history: the ids taken from _request_id_gen, in order
    s_nlines,       \* number of request lines written so far
    s_spawns,       \* number of child processes start() has spawned so far
    s_fails,        \* number of calls that raised since the last call that
                    \* returned a response
    s_event         \* history: what the last step of a call did

\* The PromptCache (SpecCache, SpecEnhance)
VARIABLES
    cache,          \* the PromptCache: max_size, exact_cache (the OrderedDict,
                    \* oldest first), stats, qdrant_available and the points
                    \* stored in the Qdrant collection
    c_ops,          \* number of cache operations made so far
    c_last,         \* history, per prompt: the response and model of the
                    \* last put of the prompt since the last clear
    c_recency,      \* history: the cached prompts, the least recently
                    \* accessed (inserted by put, or hit by get) first, each
                    \* with the operation that accessed it last
    c_event         \* history: the last operation, its arguments and result

\* The EnhancementMiddleware (SpecEnhance)
VARIABLES
    config,         \* the EnhancementConfig loaded at construction
    e_calls,        \* per task: where its enhance() call is (idle, or
                    \* awaiting the answer to a POST to the model service)
    e_n,            \* number of enhance() and clear_cache() calls so far
    e_event         \* history: the last step of an enhance() call, with
                    \* the result when the call has returned

\* The SSE transport (SpecSse, FairSpecSse)
VARIABLES
    sessions,       \* the module's sessions dict: the registered session ids
    sse_objects,    \* the SSESession objects created so far, by id: active
                    \* and the queue (oldest frame first)
    sse_pump,       \* per session: where its event_generator is
    sse_sent,       \* history, per session: the frames put on its queue
    sse_delivered,  \* history, per session: the event frames the generator
                    \* has yielded to the stream
    server_registry,  \* app.state.server_registry: NoneObj, or the names
                    \* list_servers() returns
    sse_posts,      \* per task: where its sse_message handler is
    sse_n,          \* number of POST /message requests made so far
    sse_event       \* history: the last answer of a handler

bvars == <<breaker, b_op, b_ret, b_pre, b_streak, b_opens>>

rvars == <<servers, http_client, started, stdio_adapters, circuit_breakers,
           id_gen,
           calls, r_streak, r_event>>

svars == <<process, restart_count, lock, request_id_gen, s_calls, s_ncalls,
           s_noid, s_assigned, s_nlines, s_spawns, s_fails, s_event>>

cvars == <<cache, c_ops, c_last, c_recency, c_event>>

evars == <<config, e_calls, e_n, e_event>>

ssevars ==
    <<sessions, sse_objects, sse_pump, sse_sent, sse_delivered,
      server_registry, sse_posts, sse_n, sse_event>>

vars == <<now, bvars, rvars, svars, cvars, evars, ssevars>>

\* Variables of the other components, left alone by a component's actions.
others_B == <<rvars, svars, cvars, evars, ssevars>>

others_R == <<bvars, svars, cvars, evars, ssevars>>

others_S == <<now, bvars, rvars, cvars, evars, ssevars>>

others_C == <<now, bvars, rvars, svars, evars, ssevars>>

others_E ==
    <<now, bvars, rvars, svars, c_ops, c_last, c_recency, c_event, ssevars>>

others_SSE == <<now, bvars, rvars, svars, cvars, evars>>

-----------------------------------------------------------------------------
(* Bounds of the model *)

\* Largest failure_threshold a breaker is constructed with.
MaxThreshold == 3
\* Largest recovery_timeout (in clock units) a breaker is constructed with.
MaxRecovery == 2
\* The clock of SpecBreaker stops here.
MaxTime == 5
\* record_failure() is not called on a breaker whose counter reached this.
MaxFailures == 5
\* The clock of SpecRegistry stops here.
MaxRegTime == 31
\* A stdio adapter is not handed another id-less request once its id
\* generator reached this.
MaxGenId == 1
\* Number of calls of StdioAdapter.call made in a run of SpecStdio.
MaxCalls == 5
\* Largest max_size a PromptCache is constructed with.
MaxSize == 3
\* Number of get, put and clear calls made in a run of SpecCache.
MaxCacheOps == 5
\* Number of enhance and clear_cache calls made in a run of SpecEnhance.
MaxEnhance == 3
\* Number of SSE sessions opened in a run of SpecSse.
MaxSessions == 2
\* Number of POST /message and DELETE /sse/{id} requests in a run of SpecSse.
MaxRequests == 2
\* A capacity for the event queue of a session, no larger than the number
\* of POST /message the model lets clients send.
QueueCapacity == 2

-----------------------------------------------------------------------------
(* Python's None, for the Optional fields (timestamps, request ids). *)
None == -1

\* None where an object is expected (a result, an error, its data, a
\* breaker that was never created, a response not yet there)
NoneObj == [none |-> TRUE]

States == {"CLOSED", "OPEN", "HALF_OPEN"}

(***************************************************************************)
(* CircuitBreaker                                                          *)
(***************************************************************************)

\* CircuitBreaker.__init__
NewBreaker(threshold, timeout) ==
    [ state             |-> "CLOSED",
      failures          |-> 0,
      failure_threshold |-> threshold,
      recovery_timeout  |-> timeout,
      last_failure      |-> None,
      last_success      |-> None ]

\* A record_success that forgets to zero the counter.
record_success_keeps_count(b, t) ==
    [b EXCEPT !.state = "CLOSED", !.last_success = t]

\* CircuitBreaker.record_success, called at time t
record_success(b, t) ==
    [b EXCEPT !.failures = 0, !.state = "CLOSED", !.last_success = t]

\* A record_failure that opens one failure late (> for >=).
record_failure_late(b, t) ==
    LET f == b.failures + 1
    IN  [b EXCEPT !.failures = f,
                  !.last_failure = t,
                  !.state = IF f > b.failure_threshold THEN "OPEN" ELSE @]

\* A record_failure that opens the circuit from CLOSED only.
record_failure_closed_only(b, t) ==
    LET f == b.failures + 1
    IN  [b EXCEPT !.failures = f,
                  !.last_failure = t,
                  !.state = IF f >= b.failure_threshold /\ @ = "CLOSED"
                            THEN "OPEN" ELSE @]

\* CircuitBreaker.record_failure, called at time t
record_failure(b, t) ==
    LET f == b.failures + 1
    IN  [b EXCEPT !.failures = f,
                  !.last_failure = t,
                  !.state = IF f >= b.failure_threshold THEN "OPEN" ELSE @]

\* A can_execute that already admits when exactly recovery_timeout has
\* elapsed (>= for >).
can_execute_early(b, t) ==
    IF b.state = "CLOSED" THEN [ret |-> TRUE, b |-> b]
    ELSE IF b.state = "OPEN" THEN
        IF b.last_failure # None /\ t - b.last_failure >= b.recovery_timeout
        THEN [ret |-> TRUE, b |-> [b EXCEPT !.state = "HALF_OPEN"]]
        ELSE [ret |-> FALSE, b |-> b]
    ELSE [ret |-> TRUE, b |-> b]

\* CircuitBreaker.can_execute, called at time t: the value returned and the
\* object afterwards.
can_execute(b, t) ==
    IF b.state = "CLOSED" THEN [ret |-> TRUE, b |-> b]
    ELSE IF b.state = "OPEN" THEN
        IF b.last_failure # None /\ t - b.last_failure > b.recovery_timeout
        THEN [ret |-> TRUE, b |-> [b EXCEPT !.state = "HALF_OPEN"]]
        ELSE [ret |-> FALSE, b |-> b]
    ELSE [ret |-> TRUE, b |-> b]

\* A reset that leaves the failure counter as it is.
reset_keeps_count(b) ==
    [b EXCEPT !.state = "CLOSED", !.last_failure = None]

\* CircuitBreaker.reset
reset(b) ==
    [b EXCEPT !.failures = 0, !.state = "CLOSED", !.last_failure = None]

\* CircuitBreaker.status (the name is the key the breaker is stored under)
status(name, b) ==
    [ name              |-> name,
      state             |-> b.state,
      failures          |-> b.failures,
      failure_threshold |-> b.failure_threshold,
      last_failure      |-> b.last_failure,
      last_success      |-> b.last_success ]

-----------------------------------------------------------------------------
(* SpecBreaker: one breaker driven by arbitrary calls of its methods.      *)

BInit ==
    /\ now = 0
    /\ \E T \in 1..MaxThreshold, rt \in 0..MaxRecovery :
          breaker = NewBreaker(T, rt)
    /\ b_op = "init"
    /\ b_ret = TRUE
    /\ b_pre = breaker
    /\ b_streak = 0
    /\ b_opens = 0

BRecordSuccess ==
    /\ breaker' = record_success(breaker, now)
    /\ b_op' = "record_success"
    /\ b_pre' = breaker
    /\ b_streak' = 0
    /\ b_opens' = 0
    /\ UNCHANGED <<now, b_ret, others_B>>

BRecordFailure ==
    /\ breaker.failures < MaxFailures
    /\ breaker' = record_failure(breaker, now)
    /\ b_op' = "record_failure"
    /\ b_pre' = breaker
    /\ b_streak' = b_streak + 1
    /\ b_opens' = IF breaker.state # "OPEN" /\ breaker'.state = "OPEN"
                  THEN 0 ELSE b_opens
    /\ UNCHANGED <<now, b_ret, others_B>>

BCanExecute ==
    /\ breaker' = can_execute(breaker, now).b
    /\ b_ret' = can_execute(breaker, now).ret
    /\ b_op' = "can_execute"
    /\ b_pre' = breaker
    /\ b_opens' = IF breaker.state = "OPEN" /\ b_ret'
                  THEN b_opens + 1 ELSE b_opens
    /\ UNCHANGED <<now, b_streak, others_B>>

BReset ==
    /\ breaker' = reset(breaker)
    /\ b_op' = "reset"
    /\ b_pre' = breaker
    /\ b_streak' = 0
    /\ b_opens' = 0
    /\ UNCHANGED <<now, b_ret, others_B>>

\* Time passes between two calls.
BTick ==
    /\ now < MaxTime
    /\ now' = now + 1
    /\ b_op' = "tick"
    /\ b_pre' = breaker
    /\ UNCHANGED <<breaker, b_ret, b_streak, b_opens, others_B>>

BNext ==
    \/ BRecordSuccess
    \/ BRecordFailure
    \/ BCanExecute
    \/ BReset
    \/ BTick

\* The registry at rest, for the specifications that do not exercise it.
RIdle ==
    /\ servers = <<>>
    /\ http_client = FALSE
    /\ started = FALSE
    /\ stdio_adapters = {}
    /\ circuit_breakers = <<>>
    /\ id_gen = <<>>
    /\ calls = <<>>
    /\ r_streak = <<>>
    /\ r_event = NoneObj

\* The stdio adapter at rest, for the specifications that do not use it.
SIdle ==
    /\ process = NoneObj
    /\ restart_count = 0
    /\ lock = NoneObj
    /\ request_id_gen = 1
    /\ s_calls = <<>>
    /\ s_ncalls = 0
    /\ s_noid = 0
    /\ s_assigned = <<>>
    /\ s_nlines = 0
    /\ s_spawns = 0
    /\ s_fails = 0
    /\ s_event = NoneObj

\* The prompt cache at rest, for the specifications that do not use it.
CIdle ==
    /\ cache = NoneObj
    /\ c_ops = 0
    /\ c_last = <<>>
    /\ c_recency = <<>>
    /\ c_event = NoneObj

\* The enhancement middleware at rest, for the specifications that do not
\* use it.
EIdle ==
    /\ config = NoneObj
    /\ e_calls = <<>>
    /\ e_n = 0
    /\ e_event = NoneObj

\* The SSE transport at rest, for the specifications that do not use it.
SseIdle ==
    /\ sessions = {}
    /\ sse_objects = <<>>
    /\ sse_pump = <<>>
    /\ sse_sent = <<>>
    /\ sse_delivered = <<>>
    /\ server_registry = NoneObj
    /\ sse_posts = <<>>
    /\ sse_n = 0
    /\ sse_event = NoneObj

InitBreaker ==
    /\ BInit
    /\ RIdle
    /\ SIdle
    /\ CIdle
    /\ EIdle
    /\ SseIdle

SpecBreaker == InitBreaker /\ [][BNext]_vars

(***************************************************************************)
(* ServerRegistry                                                          *)
(***************************************************************************)

\* ErrorCode
PARSE_ERROR == -32700
INVALID_REQUEST == -32600
SERVER_ERROR == -32000
UPSTREAM_ERROR == -32002
TIMEOUT == -32001
METHOD_NOT_FOUND == -32601

\* CircuitBreakerRegistry.__init__ defaults, which ServerRegistry uses
DefaultFailureThreshold == 3
DefaultRecoveryTimeout == 30

\* The configured servers, in the order of the configuration file (the
\* order of the keys of self.servers), and the names a caller may ask for.
ServerOrder == <<"known_stdio", "flaky">>
ServerNames == {ServerOrder[i] : i \in DOMAIN ServerOrder}
Names == ServerNames \cup {"unknown"}

\* The tasks that run ServerRegistry.call concurrently (two request handlers)
Tasks == {"t1", "t2"}

\* The clock of SpecRegistry advances by exactly the recovery timeout, or
\* by just more than it.
TickSteps == {DefaultRecoveryTimeout, DefaultRecoveryTimeout + 1}

\* Request ids (JSONRPCRequest.id: an id, or None when absent)
ReqIds == {None, 7}

\* ServerConfig: url and command say whether the field is set (non-empty)
ServerConfig(transport, url, command) ==
    [transport |-> transport, url |-> url, command |-> command]

\* The configurations the model is loaded with: one stdio server and one
\* http server, either both complete (a command, a url) or both incomplete.
Configurations ==
    { [n \in ServerNames |->
          IF n = "known_stdio" THEN ServerConfig("stdio", FALSE, complete)
                               ELSE ServerConfig("http", complete, FALSE)] :
      complete \in BOOLEAN }

\* JSONRPCResponse(result=..., error=..., id=...)
JSONRPCResponse(result, error, id) ==
    [jsonrpc |-> "2.0", result |-> result, error |-> error, id |-> id]

\* JSONRPCError
JSONRPCError(code, message, data) ==
    [code |-> code, message |-> message, data |-> data]

\* ServerRegistry.list_servers
list_servers == SelectSeq(ServerOrder, LAMBDA n : n \in DOMAIN servers)

\* A get that creates the breakers of all names on its first call.
breakers_get_all(brs, server) ==
    [n \in DOMAIN brs |->
        IF brs[n] = NoneObj
        THEN NewBreaker(DefaultFailureThreshold, DefaultRecoveryTimeout)
        ELSE brs[n]]

\* CircuitBreakerRegistry.get: the registry after get(server); the breaker
\* it returns is the one stored under server.
breakers_get(brs, server) ==
    IF brs[server] = NoneObj
    THEN [brs EXCEPT ![server] =
              NewBreaker(DefaultFailureThreshold, DefaultRecoveryTimeout)]
    ELSE brs

\* CircuitBreakerRegistry.reset_all
reset_all(brs) ==
    [n \in DOMAIN brs |-> IF brs[n] = NoneObj THEN NoneObj ELSE reset(brs[n])]

\* An unknown-server answer with the wrong error code.
UnknownServerResponse_wrong_code(server, id) ==
    JSONRPCResponse(NoneObj,
        JSONRPCError(SERVER_ERROR, <<"Unknown server", server>>,
                     [available |-> list_servers]),
        id)

\* ServerRegistry.call, unknown server
UnknownServerResponse(server, id) ==
    JSONRPCResponse(NoneObj,
        JSONRPCError(INVALID_REQUEST, <<"Unknown server", server>>,
                     [available |-> list_servers]),
        id)

\* A breaker rejection reported as an upstream error.
BreakerOpenResponse_as_upstream(server, b, id) ==
    JSONRPCResponse(NoneObj,
        JSONRPCError(UPSTREAM_ERROR, <<"circuit breaker open", server>>,
                     [state |-> status(server, b)]),
        id)

\* ServerRegistry.call, breaker rejection
BreakerOpenResponse(server, b, id) ==
    JSONRPCResponse(NoneObj,
        JSONRPCError(SERVER_ERROR, <<"circuit breaker open", server>>,
                     [state |-> status(server, b)]),
        id)

\* ServerRegistry.call, except Exception as e: the answer built from str(e)
UpstreamErrorResponse(message, id) ==
    JSONRPCResponse(NoneObj, JSONRPCError(UPSTREAM_ERROR, message, NoneObj), id)

\* The exception _call_stdio / _call_http raise before anything is sent to
\* the backend, or "" when the request goes out.
RaisedBeforeSend(server) ==
    IF servers[server].transport = "stdio"
    THEN IF server \notin stdio_adapters
         THEN "STDIO adapter not initialized" ELSE ""
    ELSE IF ~http_client THEN "HTTP client not initialized"
    ELSE IF ~servers[server].url THEN "No URL configured"
    ELSE ""

\* What the awaited dispatch can raise once the request is out:
\* StdioAdapter.call (timeout, closed pipe, invalid JSON, restart ceiling),
\* httpx (connection error, raise_for_status), JSONRPCResponse(**reply)
\* (a reply that does not validate).
Exceptions(transport) ==
    IF transport = "stdio"
    THEN {"TimeoutError", "RuntimeError"}
    ELSE {"HTTPStatusError", "ValidationError"}

\* The outcomes of the awaited dispatch of task t: a well-formed reply,
\* which either echoes the id that went out or carries none and holds a
\* result or the backend's own error; or an exception.
Outcomes(t) ==
    IF calls[t].pc # "awaiting" THEN {}
    ELSE { [kind |-> "reply", id |-> i, body |-> b] :
             i \in {calls[t].wire, None}, b \in {"result", "error"} }
         \cup
         { [kind |-> "raise", exc |-> e] :
             e \in Exceptions(servers[calls[t].server].transport) }

\* JSONRPCResponse(**reply): an absent id takes the field's default, None
WrapReply(o) ==
    IF o.body = "result"
    THEN JSONRPCResponse([tools |-> <<>>], NoneObj, o.id)
    ELSE JSONRPCResponse(NoneObj,
             JSONRPCError(METHOD_NOT_FOUND, "Method not found", NoneObj),
             o.id)

\* A task's call: not in ServerRegistry.call, or suspended in its dispatch
\* (server and id are the arguments, wire the id that went out).
IdleCall == [pc |-> "idle", server |-> "", id |-> None, wire |-> None]

AwaitingCall(server, id, wire) ==
    [pc |-> "awaiting", server |-> server, id |-> id, wire |-> wire]

\* History of one step of ServerRegistry.call for (server, id): step is
\* "begin" or "complete"; streak is the server's r_streak before the step;
\* contacted says whether the request was handed to the transport; resp is
\* the JSONRPCResponse the call returned in this step, or NoneObj when it
\* suspended.
CallEvent(step, server, id, streak, contacted, resp) ==
    [step |-> step, server |-> server, id |-> id, streak |-> streak,
     contacted |-> contacted, resp |-> resp]

\* The history of a step that ended the awaited dispatch: the event, with
\* the outcome o the dispatch had.
CompleteEvent(server, id, streak, resp, o) ==
    [step |-> "complete", server |-> server, id |-> id, streak |-> streak,
     contacted |-> TRUE, resp |-> resp, outcome |-> o]

\* The id on the wire: request.model_dump()["id"], or for a stdio adapter
\* the next value of its generator when that is None.
WireId(server, id) ==
    IF servers[server].transport = "stdio" /\ id = None
    THEN id_gen[server] ELSE id

-----------------------------------------------------------------------------
(* SpecRegistry: tasks calling ServerRegistry.call concurrently.           *)

RInit ==
    /\ now = 0
    /\ servers \in Configurations
    /\ http_client \in BOOLEAN
    /\ started = FALSE
    /\ stdio_adapters = {}
    /\ circuit_breakers = [n \in Names |-> NoneObj]
    /\ id_gen = [n \in ServerNames |-> 1]
    /\ calls = [t \in Tasks |-> IdleCall]
    /\ r_streak = [n \in ServerNames |-> 0]
    /\ r_event = NoneObj

\* ServerRegistry.initialize: an adapter for every stdio server that has a
\* command; a start() that raises records a failure on the server's breaker.
RInitialize ==
    /\ ~started
    /\ started' = TRUE
    /\ stdio_adapters' =
          {n \in DOMAIN servers :
              servers[n].transport = "stdio" /\ servers[n].command}
    /\ \E failed \in SUBSET stdio_adapters' :
          circuit_breakers' = [n \in Names |->
              IF n \in failed
              THEN record_failure(breakers_get(circuit_breakers, n)[n], now)
              ELSE circuit_breakers[n]]
    /\ r_event' = NoneObj
    /\ UNCHANGED <<now, servers, http_client, id_gen, calls, r_streak,
                   others_R>>

\* ServerRegistry.call up to its first suspension: the unknown-server
\* answer, the breaker's admission, and the dispatch as far as handing the
\* request to the transport.
RCallBegin(t, server, id) ==
    /\ started
    /\ calls[t].pc = "idle"
    /\ IF server \notin DOMAIN servers
       THEN /\ r_event' = CallEvent("begin", server, id, 0, FALSE,
                              UnknownServerResponse(server, id))
            /\ UNCHANGED <<circuit_breakers, id_gen, r_streak, calls>>
       ELSE LET got == breakers_get(circuit_breakers, server)
                adm == can_execute(got[server], now)
                brs == [got EXCEPT ![server] = adm.b]
                exc == RaisedBeforeSend(server)
            IN  IF ~adm.ret
                THEN /\ r_event' = CallEvent("begin", server, id,
                           r_streak[server], FALSE,
                           BreakerOpenResponse(server, adm.b, id))
                     /\ circuit_breakers' = brs
                     /\ UNCHANGED <<id_gen, r_streak, calls>>
                ELSE IF exc # ""
                THEN /\ r_event' = CallEvent("begin", server, id,
                           r_streak[server], FALSE,
                           UpstreamErrorResponse(exc, id))
                     /\ circuit_breakers' = [brs EXCEPT ![server] =
                                         record_failure(@, now)]
                     /\ r_streak' = [r_streak EXCEPT ![server] = @ + 1]
                     /\ UNCHANGED <<id_gen, calls>>
                ELSE /\ id = None => WireId(server, id) <= MaxGenId
                     /\ calls' = [calls EXCEPT ![t] =
                           AwaitingCall(server, id, WireId(server, id))]
                     /\ r_event' = CallEvent("begin", server, id,
                           r_streak[server], TRUE, NoneObj)
                     /\ circuit_breakers' = brs
                     /\ id_gen' = IF WireId(server, id) # id
                                  THEN [id_gen EXCEPT ![server] = @ + 1]
                                  ELSE id_gen
                     /\ UNCHANGED r_streak
    /\ UNCHANGED <<now, servers, http_client, started, stdio_adapters,
                   others_R>>

\* A ServerRegistry.call that records no failure when the dispatch raises.
call_complete_forgets_failure(c, b, o, t) ==
    IF o.kind = "reply"
    THEN [resp |-> WrapReply(o), breaker |-> record_success(b, t)]
    ELSE [resp |-> UpstreamErrorResponse(o.exc, c.id), breaker |-> b]

\* ServerRegistry.call after the awaited dispatch of call c ended with
\* outcome o at time t: the response returned and the server's breaker b
\* afterwards.
call_complete(c, b, o, t) ==
    IF o.kind = "reply"
    THEN [resp |-> WrapReply(o), breaker |-> record_success(b, t)]
    ELSE [resp |-> UpstreamErrorResponse(o.exc, c.id),
          breaker |-> record_failure(b, t)]

RCallComplete(t, o) ==
    /\ calls[t].pc = "awaiting"
    /\ LET c == calls[t]
           s == c.server
           done == call_complete(c, circuit_breakers[s], o, now)
       IN  /\ calls' = [calls EXCEPT ![t] = IdleCall]
           /\ circuit_breakers' = [circuit_breakers EXCEPT ![s] = done.breaker]
           /\ r_streak' = [r_streak EXCEPT ![s] =
                              IF o.kind = "reply" THEN 0 ELSE @ + 1]
           /\ r_event' = CompleteEvent(s, c.id, r_streak[s], done.resp, o)
    /\ UNCHANGED <<now, servers, http_client, started, stdio_adapters,
                   id_gen, others_R>>

\* starlette's JSONResponse(content=..., status_code=...)
JSONResponse(content, status_code) ==
    [content |-> content, status_code |-> status_code]

\* A POST /mcp/{server} handler that answers 200 whatever the registry
\* returned.
proxy_mcp_json_rpc_always_ok(parsed, response) ==
    IF ~parsed
    THEN JSONResponse(
             JSONRPCResponse(NoneObj,
                 JSONRPCError(PARSE_ERROR, "parse error", NoneObj), None),
             400)
    ELSE JSONResponse(response, 200)

\* POST /mcp/{server}: the HTTP response, given whether the body parsed
\* into a JSONRPCRequest and, when it did, the response that
\* server_registry.call returned.
proxy_mcp_json_rpc(parsed, response) ==
    IF ~parsed
    THEN JSONResponse(
             JSONRPCResponse(NoneObj,
                 JSONRPCError(PARSE_ERROR, "parse error", NoneObj), None),
             400)
    ELSE JSONResponse(response,
                      IF response.error = NoneObj THEN 200 ELSE 502)

\* POST /mcp/{server} with a body that does not parse: the handler answers
\* without calling the registry.
RParseError ==
    /\ started
    /\ r_event' = CallEvent("parse_error", "", None, 0, FALSE,
                            proxy_mcp_json_rpc(FALSE, NoneObj).content)
    /\ UNCHANGED <<now, servers, http_client, started, stdio_adapters,
                   circuit_breakers, id_gen, calls, r_streak, others_R>>

\* POST /actions/reset-breakers
RResetAll ==
    /\ started
    /\ circuit_breakers' = reset_all(circuit_breakers)
    /\ r_streak' = [n \in ServerNames |-> 0]
    /\ r_event' = NoneObj
    /\ UNCHANGED <<now, servers, http_client, started, stdio_adapters,
                   id_gen, calls, others_R>>

\* ServerRegistry.health_check, as far as it touches the breaker registry
RHealthCheck(server) ==
    /\ started
    /\ server \in DOMAIN servers
    /\ circuit_breakers' = breakers_get(circuit_breakers, server)
    /\ r_event' = NoneObj
    /\ UNCHANGED <<now, servers, http_client, started, stdio_adapters,
                   id_gen, calls, r_streak, others_R>>

RTick ==
    /\ \E d \in TickSteps : now + d <= MaxRegTime /\ now' = now + d
    /\ r_event' = NoneObj
    /\ UNCHANGED <<servers, http_client, started, stdio_adapters,
                   circuit_breakers,
                   id_gen, calls, r_streak, others_R>>

RNext ==
    \/ RInitialize
    \/ \E t \in Tasks, server \in Names, id \in ReqIds :
          RCallBegin(t, server, id)
    \/ \E t \in Tasks : \E o \in Outcomes(t) : RCallComplete(t, o)
    \/ RParseError
    \/ RResetAll
    \/ \E server \in Names : RHealthCheck(server)
    \/ RTick

\* The breaker object at rest, for the specifications that do not use it.
BIdle ==
    /\ breaker = NoneObj
    /\ b_op = "init"
    /\ b_ret = TRUE
    /\ b_pre = NoneObj
    /\ b_streak = 0
    /\ b_opens = 0

InitRegistry ==
    /\ RInit
    /\ BIdle
    /\ SIdle
    /\ CIdle
    /\ EIdle
    /\ SseIdle

SpecRegistry == InitRegistry /\ [][RNext]_vars

(***************************************************************************)
(* src/router/adapters/stdio.py: StdioAdapter and its child process       *)
(***************************************************************************)

\* StdioAdapter.__init__: max_restarts
max_restarts == 3

\* A request line on the child's stdin, a response line on its stdout: the
\* JSON-RPC id it carries, and n, the number of the request line it is (or
\* answers) in the order the adapter wrote them.
Line(id, n) == [id |-> id, n |-> n]

\* StdioAdapter.start: a new child with empty pipes
StartedProcess ==
    [state |-> "running", returncode |-> None, stdin |-> <<>>,
     stdout |-> <<>>]

\* StdioAdapter.is_healthy
is_healthy(p) == p # NoneObj /\ p.returncode = None

\* A _restart whose ceiling is one restart too high.
restart_past_ceiling(p, count) ==
    IF count > max_restarts
    THEN {[process |-> p, restart_count |-> count, exc |-> "RuntimeError",
           spawned |-> 0]}
    ELSE {[process |-> StartedProcess, restart_count |-> count + 1,
           exc |-> "", spawned |-> 1]}

\* A _restart that does not count the restarts it makes.
restart_uncounted(p, count) ==
    IF count >= max_restarts
    THEN {[process |-> p, restart_count |-> count, exc |-> "RuntimeError",
           spawned |-> 0]}
    ELSE {[process |-> StartedProcess, restart_count |-> count,
           exc |-> "", spawned |-> 1]}

\* StdioAdapter._restart: the ways it can end, each with the process and the
\* restart count it leaves, the exception it raises ("" for none) and the
\* number of children it spawned.  At the ceiling it raises before it stops
\* anything.  Below it, stop() comes first: Process.terminate() on a child
\* whose exit the event loop has seen raises ProcessLookupError as soon as
\* the transport is finished (all pipes closed), and stop() catches only
\* asyncio.TimeoutError, so that _restart ends there with nothing changed;
\* otherwise the old child is dropped, the count goes up by one, and start()
\* spawns a child or raises.
restart(p, count) ==
    IF count >= max_restarts
    THEN {[process |-> p, restart_count |-> count, exc |-> "RuntimeError",
           spawned |-> 0]}
    ELSE {[process |-> StartedProcess, restart_count |-> count + 1,
           exc |-> "", spawned |-> 1],
          [process |-> NoneObj, restart_count |-> count + 1,
           exc |-> "OSError", spawned |-> 0]}
         \cup
         IF p # NoneObj /\ p.returncode # None
         THEN {[process |-> p, restart_count |-> count,
                exc |-> "ProcessLookupError", spawned |-> 0]}
         ELSE {}

\* asyncio.Lock
FreeLock == [owner |-> "", waiters |-> <<>>]

\* asyncio.Lock.release: the lock passes to the longest-waiting task
release(l) ==
    IF l.waiters = <<>>
    THEN FreeLock
    ELSE [owner |-> Head(l.waiters), waiters |-> Tail(l.waiters)]

\* A task's call of StdioAdapter.call: pc is "idle" (not in a call),
\* "waiting" (for the lock), "locked" (holds the lock, nothing written yet),
\* "draining" (its line is in the transport's buffer, it awaits drain) or
\* "reading" (its line is written, it awaits readline); id is the id of
\* its request, n the number of the line it wrote, k its rank among the
\* calls whose request had no id (0 if it has one).
IdleStdioCall == [pc |-> "idle", id |-> None, n |-> 0, k |-> 0]

\* A request id assignment that takes a value from the generator for every
\* request.
assign_id_always(id, gen) ==
    [id |-> IF id = None THEN gen ELSE id, gen |-> gen + 1]

\* StdioAdapter.call: if "id" not in request or request["id"] is None:
\* request["id"] = next(self._request_id_gen).  The id the request is
\* written with and the generator's next value afterwards.
assign_id(id, gen) ==
    IF id = None THEN [id |-> gen, gen |-> gen + 1]
    ELSE [id |-> id, gen |-> gen]

\* The tasks after task t left its call and released the lock l: the new
\* owner of the lock, if any, stops waiting.
AfterRelease(t, l) ==
    [u \in Tasks |->
        IF u = t THEN IdleStdioCall
        ELSE IF release(l).owner = u THEN [s_calls[u] EXCEPT !.pc = "locked"]
        ELSE s_calls[u]]

\* History of a step of task t's call: kind is "write", "return" or
\* "raise"; sent is the number of the request line the call wrote (0 if
\* none) and id the id it wrote on it, line the response line the call
\* returned (NoneObj if none), restarts and spawned say how many times the
\* step went through _restart's stop() to start() and how many children it
\* spawned.
StdioEvent(t, kind, sent, id, line, exc, spawned) ==
    [task |-> t, kind |-> kind, sent |-> sent, id |-> id, line |-> line,
     exc |-> exc, spawned |-> spawned]

-----------------------------------------------------------------------------
(* SpecStdio: tasks calling StdioAdapter.call concurrently, and the child. *)

\* The adapter after ServerRegistry.initialize: start() spawned the child,
\* or raised and left no process.
SInit ==
    /\ now = 0
    /\ process \in {StartedProcess, NoneObj}
    /\ restart_count = 0
    /\ lock = FreeLock
    /\ request_id_gen = 1
    /\ s_calls = [t \in Tasks |-> IdleStdioCall]
    /\ s_ncalls = 0
    /\ s_noid = 0
    /\ s_assigned = <<>>
    /\ s_nlines = 0
    /\ s_spawns = IF process = NoneObj THEN 0 ELSE 1
    /\ s_fails = 0
    /\ s_event = NoneObj

\* StdioAdapter.call, async with self._lock: the task takes the free lock, or
\* queues for it.
SCall(t, id) ==
    /\ s_calls[t].pc = "idle"
    /\ s_ncalls < MaxCalls
    /\ s_ncalls' = s_ncalls + 1
    /\ s_noid' = IF id = None THEN s_noid + 1 ELSE s_noid
    /\ IF lock.owner = "" /\ lock.waiters = <<>>
       THEN /\ lock' = [lock EXCEPT !.owner = t]
            /\ s_calls' = [s_calls EXCEPT ![t] =
                              [pc |-> "locked", id |-> id, n |-> 0,
                               k |-> IF id = None THEN s_noid' ELSE 0]]
       ELSE /\ lock' = [lock EXCEPT !.waiters = Append(@, t)]
            /\ s_calls' = [s_calls EXCEPT ![t] =
                              [pc |-> "waiting", id |-> id, n |-> 0,
                               k |-> IF id = None THEN s_noid' ELSE 0]]
    /\ s_event' = NoneObj
    /\ UNCHANGED <<process, restart_count, request_id_gen, s_assigned,
                   s_nlines,
                   s_spawns, s_fails, others_S>>

\* The call leaves with exception exc, having spawned so many children in
\* this step: the lock is released.
SRaise(t, exc, spawned) ==
    /\ s_calls' = AfterRelease(t, lock)
    /\ lock' = release(lock)
    /\ s_fails' = s_fails + 1
    /\ s_spawns' = s_spawns + spawned
    /\ s_event' = StdioEvent(t, "raise", s_calls[t].n, s_calls[t].id,
                             NoneObj, exc, spawned)

\* StdioAdapter.call from the health check to the end of the write: restart
\* an unhealthy process, assign an id to a request that has none, write the
\* whole line in one stdin.write, drain.  A running child's pipe takes the
\* line at once and drain() returns, or the child is not reading and the line
\* leaves the transport's buffer over its high-water mark: drain() suspends,
\* with no timeout around it.  A child that has exited but whose exit the
\* event loop has not seen yet passes for healthy: the write then either
\* raises (BrokenPipeError, ConnectionResetError) or is lost.
SSend(t) ==
    /\ s_calls[t].pc = "locked"
    /\ lock.owner = t
    /\ \E r \in IF is_healthy(process)
                THEN {[process |-> process, restart_count |-> restart_count,
                       exc |-> "", spawned |-> 0]}
                ELSE restart(process, restart_count) :
          /\ restart_count' = r.restart_count
          /\ IF r.exc # ""
             THEN /\ process' = r.process
                  /\ SRaise(t, r.exc, r.spawned)
                  /\ UNCHANGED <<request_id_gen, s_assigned, s_nlines>>
             ELSE LET assigned == assign_id(s_calls[t].id, request_id_gen)
                      id == assigned.id
                      n == s_nlines + 1
                      written == [pc |-> "reading", id |-> id, n |-> n,
                                  k |-> s_calls[t].k]
                  IN  /\ request_id_gen' = assigned.gen
                      /\ s_assigned' = IF s_calls[t].id = None
                                       THEN Append(s_assigned, id)
                                       ELSE s_assigned
                      /\ s_nlines' = n
                      /\ \/ /\ r.process.state = "running"
                            /\ process' = [r.process EXCEPT
                                  !.stdin = Append(@, Line(id, n))]
                            /\ s_calls' = [s_calls EXCEPT ![t] = written]
                            /\ s_event' = StdioEvent(t, "write", n, id,
                                              NoneObj, "", r.spawned)
                            /\ s_spawns' = s_spawns + r.spawned
                            /\ UNCHANGED <<lock, s_fails>>
                         \/ /\ r.process.state = "running"
                            /\ process' = r.process
                            /\ s_calls' = [s_calls EXCEPT ![t] =
                                              [written EXCEPT
                                                  !.pc = "draining"]]
                            /\ s_event' = StdioEvent(t, "write", n, id,
                                              NoneObj, "", r.spawned)
                            /\ s_spawns' = s_spawns + r.spawned
                            /\ UNCHANGED <<lock, s_fails>>
                         \/ /\ r.process.state # "running"
                            /\ process' = r.process
                            /\ s_calls' = [s_calls EXCEPT ![t] = written]
                            /\ s_event' = StdioEvent(t, "write", n, id,
                                              NoneObj, "", r.spawned)
                            /\ s_spawns' = s_spawns + r.spawned
                            /\ UNCHANGED <<lock, s_fails>>
                         \/ /\ r.process.state # "running"
                            /\ process' = r.process
                            /\ s_calls' = AfterRelease(t, lock)
                            /\ lock' = release(lock)
                            /\ s_fails' = s_fails + 1
                            /\ s_spawns' = s_spawns + r.spawned
                            /\ s_event' = StdioEvent(t, "raise", n, id,
                                  NoneObj, "BrokenPipeError", r.spawned)
    /\ UNCHANGED <<s_ncalls, s_noid, others_S>>

\* StdioAdapter.call, readline under wait_for: the next line of the child's
\* stdout is returned; or the stream is at its end (RuntimeError); or
\* nothing arrives in time, and the call restarts the process and raises
\* TimeoutError, or raises what _restart raised.
SRead(t) ==
    /\ s_calls[t].pc = "reading"
    /\ IF process.stdout # <<>>
       THEN /\ process' = [process EXCEPT !.stdout = Tail(@)]
            /\ s_calls' = AfterRelease(t, lock)
            /\ lock' = release(lock)
            /\ s_fails' = 0
            /\ s_event' = StdioEvent(t, "return", s_calls[t].n,
                              s_calls[t].id, Head(process.stdout), "", 0)
            /\ UNCHANGED <<restart_count, s_spawns>>
       ELSE IF process.state # "running"
       THEN /\ SRaise(t, "RuntimeError", 0)
            /\ UNCHANGED <<process, restart_count>>
       ELSE \E r \in restart(process, restart_count) :
               /\ process' = r.process
               /\ restart_count' = r.restart_count
               /\ SRaise(t, IF r.exc = "" THEN "TimeoutError" ELSE r.exc,
                         r.spawned)
    /\ UNCHANGED <<request_id_gen, s_ncalls, s_noid, s_assigned, s_nlines,
                   others_S>>

\* StdioAdapter.call suspended in drain(): the child is gone, the pipe is
\* closed, and drain() raises (BrokenPipeError, ConnectionResetError); the
\* call catches neither and leaves through the lock's __aexit__.
SDrain(t) ==
    /\ s_calls[t].pc = "draining"
    /\ process.state # "running"
    /\ SRaise(t, "BrokenPipeError", 0)
    /\ UNCHANGED <<process, restart_count, request_id_gen, s_ncalls, s_noid,
                   s_assigned, s_nlines, others_S>>

\* The child reads its stdin again while a call is suspended in drain(): the
\* rest of the line goes into the pipe, drain() returns and the call goes on
\* to readline.
ChildRead ==
    /\ process # NoneObj
    /\ process.state = "running"
    /\ \E t \in Tasks :
          /\ s_calls[t].pc = "draining"
          /\ process' = [process EXCEPT
                !.stdin = Append(@, Line(s_calls[t].id, s_calls[t].n))]
          /\ s_calls' = [s_calls EXCEPT ![t].pc = "reading"]
    /\ s_event' = NoneObj
    /\ UNCHANGED <<restart_count, lock, request_id_gen, s_ncalls,
                   s_noid, s_assigned,
                   s_nlines, s_spawns, s_fails, others_S>>

\* The child answers the oldest request line in its stdin with one response
\* line that echoes its id.
ChildRespond ==
    /\ process # NoneObj
    /\ process.state = "running"
    /\ process.stdin # <<>>
    /\ process' = [process EXCEPT !.stdin = Tail(@),
                                  !.stdout = Append(@, Head(process.stdin))]
    /\ s_event' = NoneObj
    /\ UNCHANGED <<restart_count, lock, request_id_gen, s_calls, s_ncalls,
                   s_noid, s_assigned,
                   s_nlines, s_spawns, s_fails, others_S>>

\* The child exits (crash, kill from outside); what it had not read is lost.
ChildExit ==
    /\ process # NoneObj
    /\ process.state = "running"
    /\ process' = [process EXCEPT !.state = "exited", !.stdin = <<>>]
    /\ s_event' = NoneObj
    /\ UNCHANGED <<restart_count, lock, request_id_gen, s_calls, s_ncalls,
                   s_noid, s_assigned,
                   s_nlines, s_spawns, s_fails, others_S>>

\* The event loop notices the exit: Process.returncode is set.
ChildReaped ==
    /\ process # NoneObj
    /\ process.state = "exited"
    /\ process.returncode = None
    /\ process' = [process EXCEPT !.returncode = 0]
    /\ s_event' = NoneObj
    /\ UNCHANGED <<restart_count, lock, request_id_gen, s_calls, s_ncalls,
                   s_noid, s_assigned,
                   s_nlines, s_spawns, s_fails, others_S>>

SNext ==
    \/ \E t \in Tasks, id \in ReqIds : SCall(t, id)
    \/ \E t \in Tasks : SSend(t)
    \/ \E t \in Tasks : SDrain(t)
    \/ \E t \in Tasks : SRead(t)
    \/ ChildRead
    \/ ChildRespond
    \/ ChildExit
    \/ ChildReaped

InitStdio ==
    /\ SInit
    /\ BIdle
    /\ RIdle
    /\ CIdle
    /\ EIdle
    /\ SseIdle

SpecStdio == InitStdio /\ [][SNext]_vars

\* SpecStdio with the scheduling the event loop gives a call: the task that
\* holds the lock is resumed (SSend); wait_for ends readline with a line, the
\* end of the stream or, after self.timeout seconds, a timeout (SRead); a
\* drain() whose pipe was closed is woken with the error (SDrain).  Nothing
\* makes a child read, answer or exit.
FairSpecStdio ==
    /\ SpecStdio
    /\ \A t \in Tasks :
          /\ WF_vars(SSend(t))
          /\ WF_vars(SDrain(t))
          /\ WF_vars(SRead(t))

(***************************************************************************)
(* src/router/cache.py: PromptCache                                        *)
(***************************************************************************)

\* The prompts, responses and models the cache is exercised with
Prompts == {"a", "b", "c"}

\* The prompts enhance() is called with: "x*n" is the letter x, n times
EnhancePrompts == {"a", "x*28800", "x*460800"}

PutValues == {[response |-> "r1", model |-> "m1"],
              [response |-> "r2", model |-> "m2"]}

\* PromptCache._hash_prompt: the first 16 hex digits of the prompt's SHA-256.
\* The prompts of the model have distinct keys (the spec documents that
\* colliding prompts would share an entry).
hash_prompt(prompt) ==
    CASE prompt = "a" -> "ca978112ca1bbdca"
      [] prompt = "b" -> "3e23e8160039594a"
      [] prompt = "c" -> "2e7d2c03a9507ae2"
      [] prompt = "x*28800" -> "25569af4933db2b2"
      [] prompt = "x*460800" -> "fab73bff0dc753d3"
      [] OTHER -> <<"sha256", prompt>>

\* CacheEntry (created_at is left out: nothing reads it)
CacheEntry(prompt, response, model, hits) ==
    [prompt |-> prompt, response |-> response, model |-> model,
     hits |-> hits]

\* CacheStats()
CacheStats ==
    [l1_hits |-> 0, l1_misses |-> 0, l2_hits |-> 0, l2_misses |-> 0,
     total_entries |-> 0]

\* PromptCache.__init__
PromptCache(max_size, qdrant_available) ==
    [max_size |-> max_size, exact_cache |-> <<>>, stats |-> CacheStats,
     qdrant_available |-> qdrant_available, qdrant_points |-> {}]

\* The keys of an OrderedDict, and the position of a key in it
Keys(od) == {od[i].key : i \in DOMAIN od}

IndexOf(od, key) == CHOOSE i \in DOMAIN od : od[i].key = key

\* od[key], for a key of od
Item(od, key) == od[IndexOf(od, key)].entry

\* OrderedDict without the item at position i
Without(od, i) ==
    [j \in 1..(Len(od) - 1) |-> IF j < i THEN od[j] ELSE od[j + 1]]

\* OrderedDict.move_to_end(key)
move_to_end(od, key) ==
    Append(Without(od, IndexOf(od, key)), od[IndexOf(od, key)])

\* od[key] = entry: a key that is present keeps its position
setitem(od, key, entry) ==
    IF key \in Keys(od)
    THEN [od EXCEPT ![IndexOf(od, key)].entry = entry]
    ELSE Append(od, [key |-> key, entry |-> entry])

\* PromptCache._find_similar_qdrant: the entries a search can come back
\* with (rebuilt from a stored payload), or NoneObj for no match above the
\* threshold or a failed search
find_similar_qdrant(c) == {NoneObj} \cup c.qdrant_points

\* A get that does not count the hit on the entry.
get_without_hit_count(c, prompt, embedding, best_match) ==
    IF hash_prompt(prompt) \in Keys(c.exact_cache)
    THEN [cache |-> [c EXCEPT
                       !.exact_cache = move_to_end(@, hash_prompt(prompt)),
                       !.stats.l1_hits = @ + 1],
          ret |-> Item(c.exact_cache, hash_prompt(prompt))]
    ELSE [cache |-> [c EXCEPT !.stats.l1_misses = @ + 1], ret |-> NoneObj]

\* A get that searches L2 also when no embedding was given.
get_l2_always(c, prompt, embedding, best_match) ==
    IF hash_prompt(prompt) \in Keys(c.exact_cache)
    THEN [cache |-> [c EXCEPT
                       !.exact_cache = move_to_end(
                           setitem(@, hash_prompt(prompt),
                                   [Item(@, hash_prompt(prompt))
                                       EXCEPT !.hits = @ + 1]),
                           hash_prompt(prompt)),
                       !.stats.l1_hits = @ + 1],
          ret |-> [Item(c.exact_cache, hash_prompt(prompt))
                      EXCEPT !.hits = @ + 1]]
    ELSE IF c.qdrant_available
    THEN [cache |-> [c EXCEPT !.stats.l1_misses = @ + 1,
                              !.stats.l2_misses = @ + 1],
          ret |-> NoneObj]
    ELSE [cache |-> [c EXCEPT !.stats.l1_misses = @ + 1], ret |-> NoneObj]

\* PromptCache.get(prompt, embedding): the cache afterwards and the entry
\* returned (NoneObj for None); embedding says whether one was given and
\* best_match is what the Qdrant search would find.
get(c, prompt, embedding, best_match) ==
    LET prompt_hash == hash_prompt(prompt)
    IN  IF prompt_hash \in Keys(c.exact_cache)
        THEN LET entry == [Item(c.exact_cache, prompt_hash)
                              EXCEPT !.hits = @ + 1]
             IN  [cache |-> [c EXCEPT
                     !.exact_cache = move_to_end(
                         setitem(@, prompt_hash, entry), prompt_hash),
                     !.stats.l1_hits = @ + 1],
                  ret |-> entry]
        ELSE LET missed == [c EXCEPT !.stats.l1_misses = @ + 1]
             IN  IF embedding /\ c.qdrant_available
                 THEN IF best_match # NoneObj
                      THEN [cache |-> [missed EXCEPT !.stats.l2_hits = @ + 1],
                            ret |-> [best_match EXCEPT !.hits = @ + 1]]
                      ELSE [cache |->
                                [missed EXCEPT !.stats.l2_misses = @ + 1],
                            ret |-> NoneObj]
                 ELSE [cache |-> missed, ret |-> NoneObj]

\* PromptCache.put(prompt, response, model, embedding): the cache
\* afterwards; stored says whether the upsert into Qdrant went through.
\* (max_size is at least 1, so popitem finds an item.)
put(c, prompt, response, model, embedding, stored) ==
    LET entry == CacheEntry(prompt, response, model, 0)
        od == IF Len(c.exact_cache) >= c.max_size
              THEN Tail(c.exact_cache) ELSE c.exact_cache
        new == setitem(od, hash_prompt(prompt), entry)
    IN  [c EXCEPT
           !.exact_cache = new,
           !.qdrant_points =
               IF embedding /\ c.qdrant_available /\ stored
               THEN @ \cup {entry} ELSE @,
           !.stats.total_entries = Len(new)]

\* How the Qdrant side of clear() can end: the collection is deleted and
\* created again, or the delete fails, or the new start of the client fails
\* and L2 is switched off.
ClearOutcomes(c) ==
    IF c.qdrant_available THEN {"recreated", "failed", "lost"}
    ELSE {"no_qdrant"}

\* PromptCache.clear
clear(c, outcome) ==
    [c EXCEPT
       !.exact_cache = <<>>,
       !.qdrant_points = IF outcome \in {"recreated", "lost"} THEN {} ELSE @,
       !.qdrant_available = IF outcome = "lost" THEN FALSE ELSE @,
       !.stats = CacheStats]

\* History of a cache operation
CacheEvent(op, prompt, value, ret) ==
    [op |-> op, prompt |-> prompt, value |-> value, ret |-> ret]

\* The recency list after an access to prompt by op, and with only the
\* prompts that are cached in od.
Accessed(recency, prompt, op, od) ==
    LET rest == SelectSeq(recency, LAMBDA a : a.prompt # prompt)
    IN  SelectSeq(Append(rest, [prompt |-> prompt, op |-> op]),
                  LAMBDA a : hash_prompt(a.prompt) \in Keys(od))

-----------------------------------------------------------------------------
(* SpecCache: get, put and clear called on one PromptCache.                *)

CInit ==
    /\ \E max_size \in 1..MaxSize, qdrant_available \in BOOLEAN :
          cache = PromptCache(max_size, qdrant_available)
    /\ c_ops = 0
    /\ c_last = [q \in Prompts |-> NoneObj]
    /\ c_recency = <<>>
    /\ c_event = NoneObj

CGet(prompt, embedding) ==
    /\ c_ops < MaxCacheOps
    /\ \E best_match \in find_similar_qdrant(cache) :
          LET got == get(cache, prompt, embedding, best_match)
          IN  /\ cache' = got.cache
              /\ c_event' = CacheEvent("get", prompt, NoneObj, got.ret)
              /\ c_recency' =
                    IF hash_prompt(prompt) \in Keys(cache.exact_cache)
                    THEN Accessed(c_recency, prompt, "get",
                                  got.cache.exact_cache)
                    ELSE c_recency
    /\ c_ops' = c_ops + 1
    /\ UNCHANGED <<c_last, others_C>>

CPut(prompt, value, embedding) ==
    /\ c_ops < MaxCacheOps
    /\ \E stored \in BOOLEAN :
          cache' = put(cache, prompt, value.response, value.model,
                       embedding, stored)
    /\ c_event' = CacheEvent("put", prompt, value, NoneObj)
    /\ c_last' = [c_last EXCEPT ![prompt] = value]
    /\ c_recency' = Accessed(c_recency, prompt, "put", cache'.exact_cache)
    /\ c_ops' = c_ops + 1
    /\ UNCHANGED others_C

CClear ==
    /\ c_ops < MaxCacheOps
    /\ \E outcome \in ClearOutcomes(cache) : cache' = clear(cache, outcome)
    /\ c_event' = CacheEvent("clear", "", NoneObj, NoneObj)
    /\ c_last' = [q \in Prompts |-> NoneObj]
    /\ c_recency' = <<>>
    /\ c_ops' = c_ops + 1
    /\ UNCHANGED others_C

CNext ==
    \/ \E prompt \in Prompts, embedding \in BOOLEAN : CGet(prompt, embedding)
    \/ \E prompt \in Prompts, value \in PutValues, embedding \in BOOLEAN :
          CPut(prompt, value, embedding)
    \/ CClear

InitCache ==
    /\ CInit
    /\ now = 0
    /\ BIdle
    /\ RIdle
    /\ SIdle
    /\ EIdle
    /\ SseIdle

SpecCache == InitCache /\ [][CNext]_vars

(***************************************************************************)
(* src/router/middleware/enhance.py: EnhancementMiddleware                 *)
(***************************************************************************)

\* MODEL_LIMITS.get(model, 8_000)
MODEL_LIMITS(model) ==
    CASE model = "llama3.2:3b" -> 128000
      [] model = "llama3" -> 8000
      [] model = "deepseek-r1:14b" -> 64000
      [] model = "deepseek-r1" -> 64000
      [] model = "qwen2.5-coder:7b" -> 128000
      [] model = "phi3:mini" -> 128000
      [] model = "nomic-embed-text" -> 8000
      [] OTHER -> 8000

\* len(prompt), in characters
len(prompt) ==
    CASE prompt = "x*28800" -> 28800
      [] prompt = "x*460800" -> 460800
      [] OTHER -> 1

\* str.strip() on the texts of the model
strip(text) ==
    CASE text = " E1 " -> "E1"
      [] OTHER -> text

\* EnhancementMiddleware._check_context_limit:
\* len(prompt) // 4 < limit * 0.9
check_context_limit(prompt, model) ==
    (len(prompt) \div 4) * 10 < MODEL_LIMITS(model) * 9

\* EnhancementRule (the system prompt is only passed on to the model)
EnhancementRule(enabled, model) == [enabled |-> enabled, model |-> model]

\* A null in the fallback chain (list[str | None])
NoneModel == "null"

\* The fallback chains of the configurations
FallbackChains == {<<>>, <<"llama3.2:3b", NoneModel, "llama3", "llama3">>}

\* EnhancementConfig: the configurations the middleware is loaded with
EnhancementConfigs ==
    {[default |-> EnhancementRule(TRUE, "llama3.2:3b"),
      clients |-> [vscode |-> EnhancementRule(TRUE, "llama3"),
                   off |-> EnhancementRule(FALSE, "llama3.2:3b")],
      fallback_chain |-> chain] : chain \in FallbackChains}

\* The client names of the requests ("" for no client given)
Clients == {"", "vscode", "off", "cursor"}

\* EnhancementMiddleware.get_rule
get_rule(cfg, client) ==
    IF client # "" /\ client \in DOMAIN cfg.clients
    THEN cfg.clients[client]
    ELSE cfg.default

\* _call_ollama: models_to_try
models_to_try(cfg, rule) ==
    <<rule.model>> \o SelectSeq(cfg.fallback_chain,
                                LAMBDA m : m # NoneModel /\ m # rule.model)

\* _call_ollama: the position of the first model from position i on that
\* passes the context check, Len(models) + 1 if there is none
RECURSIVE next_candidate(_, _, _)
next_candidate(prompt, models, i) ==
    IF i > Len(models) THEN i
    ELSE IF check_context_limit(prompt, models[i]) THEN i
    ELSE next_candidate(prompt, models, i + 1)

\* What a POST to /api/generate can come to: a 200 answer with a JSON body
\* (with or without a "response"), an httpx.HTTPError (raised by post or by
\* raise_for_status), or another exception (a body that is not JSON)
PostOutcomes ==
    {[kind |-> "ok", body |-> [response |-> " E1 "]],
     [kind |-> "ok", body |-> [done |-> TRUE]],
     [kind |-> "HTTPError", exc |-> "ConnectError"],
     [kind |-> "HTTPError", exc |-> "HTTPStatusError"],
     [kind |-> "Exception", exc |-> "JSONDecodeError"]}

\* The dictionaries enhance() returns
SkippedResult(prompt) ==
    [original |-> prompt, enhanced |-> prompt, model |-> NoneObj,
     cached |-> FALSE, skipped |-> TRUE]

CachedResult(prompt, entry) ==
    [original |-> prompt, enhanced |-> entry.response,
     model |-> entry.model, cached |-> TRUE]

FreshResult(prompt, enhanced, rule) ==
    [original |-> prompt, enhanced |-> enhanced, model |-> rule.model,
     cached |-> FALSE]

ErrorResult(prompt, rule, exc) ==
    [original |-> prompt, enhanced |-> prompt, model |-> rule.model,
     cached |-> FALSE, error |-> exc]

IdleEnhance == [pc |-> "idle"]

\* An enhance() call awaiting the answer of models[i]
Posting(prompt, client, rule, models, i, last_error, contacted) ==
    [pc |-> "posting", prompt |-> prompt, client |-> client, rule |-> rule,
     models |-> models, i |-> i, last_error |-> last_error,
     contacted |-> contacted]

\* History of a step of enhance(): step is "posting" or "done"; contacted
\* lists the models a request was posted to, produced says whether one of
\* them answered with a body that was used
EnhanceEvent(step, prompt, client, rule, models, contacted, produced, res) ==
    [step |-> step, prompt |-> prompt, client |-> client, rule |-> rule,
     models |-> models, contacted |-> contacted, produced |-> produced,
     result |-> res]

\* An enhance() that looks the prompt up before it checks the rule.
enhance_lookup_first(c, cfg, prompt, client) ==
    LET rule == get_rule(cfg, client)
        got == get(c, prompt, FALSE, NoneObj)
    IN  [cache |-> got.cache, call |-> IdleEnhance,
         event |-> EnhanceEvent("done", prompt, client, rule, <<>>, <<>>,
                                FALSE,
                                IF rule.enabled /\ got.ret # NoneObj
                                THEN CachedResult(prompt, got.ret)
                                ELSE SkippedResult(prompt))]

\* EnhancementMiddleware.enhance, up to its first await or, when it does
\* not get to one, its return: the cache afterwards, the call's position
\* and the history of the step.
enhance(c, cfg, prompt, client) ==
    LET rule == get_rule(cfg, client)
        got == get(c, prompt, FALSE, NoneObj)
        models == models_to_try(cfg, rule)
        i == next_candidate(prompt, models, 1)
    IN  IF ~rule.enabled
        THEN [cache |-> c, call |-> IdleEnhance,
              event |-> EnhanceEvent("done", prompt, client, rule, <<>>,
                                     <<>>, FALSE, SkippedResult(prompt))]
        ELSE IF got.ret # NoneObj
        THEN [cache |-> got.cache, call |-> IdleEnhance,
              event |-> EnhanceEvent("done", prompt, client, rule, <<>>,
                                     <<>>, FALSE,
                                     CachedResult(prompt, got.ret))]
        ELSE IF i > Len(models)
        THEN \* no model passed the context check: _call_ollama returns
             \* the prompt, which is cached and returned
             [cache |-> put(got.cache, prompt, prompt, rule.model, FALSE,
                            FALSE),
              call |-> IdleEnhance,
              event |-> EnhanceEvent("done", prompt, client, rule, models,
                                     <<>>, FALSE,
                                     FreshResult(prompt, prompt, rule))]
        ELSE [cache |-> got.cache,
              call |-> Posting(prompt, client, rule, models, i, NoneObj,
                               <<models[i]>>),
              event |-> EnhanceEvent("posting", prompt, client, rule,
                                     models, <<models[i]>>, FALSE, NoneObj)]

\* EnhancementMiddleware.enhance resumed with the outcome o of the POST it
\* was awaiting (the rest of _call_ollama's loop, and enhance's try).
call_ollama_resume(c, call, o) ==
    LET prompt == call.prompt
        rule == call.rule
        j == next_candidate(prompt, call.models, call.i + 1)
        done(produced, result) ==
            EnhanceEvent("done", prompt, call.client, rule, call.models,
                         call.contacted, produced, result)
    IN  CASE o.kind = "ok" ->
               LET enhanced ==
                       strip(IF "response" \in DOMAIN o.body
                             THEN o.body.response ELSE prompt)
               IN  [cache |-> put(c, prompt, enhanced, rule.model, FALSE,
                                  FALSE),
                    call |-> IdleEnhance,
                    event |-> done(TRUE, FreshResult(prompt, enhanced, rule))]
          [] o.kind = "HTTPError" ->
               IF j > Len(call.models)
               THEN [cache |-> c, call |-> IdleEnhance,
                     event |-> done(FALSE, ErrorResult(prompt, rule, o.exc))]
               ELSE [cache |-> c,
                     call |-> [call EXCEPT
                                 !.i = j, !.last_error = o.exc,
                                 !.contacted = Append(@, call.models[j])],
                     event |-> EnhanceEvent("posting", prompt, call.client,
                                   rule, call.models,
                                   Append(call.contacted, call.models[j]),
                                   FALSE, NoneObj)]
          [] OTHER ->
               [cache |-> c, call |-> IdleEnhance,
                event |-> done(FALSE, ErrorResult(prompt, rule, o.exc))]

-----------------------------------------------------------------------------
(* SpecEnhance: tasks calling enhance() and clear_cache() on one           *)
(* middleware and its cache.                                               *)

EInit ==
    /\ config \in EnhancementConfigs
    /\ \E max_size \in 1..MaxSize : cache = PromptCache(max_size, FALSE)
    /\ e_calls = [t \in Tasks |-> IdleEnhance]
    /\ e_n = 0
    /\ e_event = NoneObj
    /\ c_ops = 0
    /\ c_last = <<>>
    /\ c_recency = <<>>
    /\ c_event = NoneObj

EBegin(t, prompt, client) ==
    /\ e_n < MaxEnhance
    /\ e_calls[t] = IdleEnhance
    /\ LET r == enhance(cache, config, prompt, client)
       IN  /\ cache' = r.cache
           /\ e_calls' = [e_calls EXCEPT ![t] = r.call]
           /\ e_event' = r.event
    /\ e_n' = e_n + 1
    /\ UNCHANGED <<config, others_E>>

EPost(t, o) ==
    /\ e_calls[t].pc = "posting"
    /\ LET r == call_ollama_resume(cache, e_calls[t], o)
       IN  /\ cache' = r.cache
           /\ e_calls' = [e_calls EXCEPT ![t] = r.call]
           /\ e_event' = r.event
    /\ UNCHANGED <<config, e_n, others_E>>

EClear ==
    /\ e_n < MaxEnhance
    /\ \E outcome \in ClearOutcomes(cache) : cache' = clear(cache, outcome)
    /\ e_event' = [step |-> "clear"]
    /\ e_n' = e_n + 1
    /\ UNCHANGED <<config, e_calls, others_E>>

ENext ==
    \/ \E t \in Tasks, prompt \in EnhancePrompts, client \in Clients :
          EBegin(t, prompt, client)
    \/ \E t \in Tasks, o \in PostOutcomes : EPost(t, o)
    \/ EClear

InitEnhance ==
    /\ EInit
    /\ now = 0
    /\ BIdle
    /\ RIdle
    /\ SIdle
    /\ SseIdle

SpecEnhance == InitEnhance /\ [][ENext]_vars

(***************************************************************************)
(* src/router/sse.py: SSESession, event_generator and the SSE handlers     *)
(***************************************************************************)

INTERNAL_ERROR == -32603

\* str(uuid.uuid4()) for the k-th session: an id no other session has
uuid4(k) == <<"uuid4", k>>

\* A session id no session was ever given
StrangerId == uuid4(0)

\* str(request.base_url) of the requests that open a session
BaseUrls == {"http://gw:9090/", "http://gw:9090"}

\* str.rstrip("/") on the base URLs of the model
rstrip(url) ==
    CASE url = "http://gw:9090/" -> "http://gw:9090"
      [] OTHER -> url

\* sse_connect: f"{base_url}/message?session_id={session_id}"
message_url(base_url, session_id) ==
    <<rstrip(base_url), "/message?session_id=", session_id>>

\* SSESession.send: f"event: {event}\ndata: {data}\n\n"; a dict is dumped
\* as JSON, which keeps its fields
Frame(event, data) == [event |-> event, data |-> data]

\* SSESession(session_id)
SSESession == [active |-> TRUE, queue |-> <<>>]

\* A send that does not look at session.active.
send_when_closed(session, event, data) ==
    [session EXCEPT !.queue = Append(@, Frame(event, data))]

\* A send that puts the frame at the head of the queue.
send_first(session, event, data) ==
    IF ~session.active THEN session
    ELSE [session EXCEPT !.queue = <<Frame(event, data)>> \o @]

\* SSESession.send: the session afterwards (the queue is unbounded, put
\* does not wait)
send(session, event, data) ==
    IF ~session.active THEN session
    ELSE [session EXCEPT !.queue = Append(@, Frame(event, data))]

\* SSESession.send_json_rpc
send_json_rpc(session, response) == send(session, "message", response)

\* SSESession.close
close(session) == [session EXCEPT !.active = FALSE]

\* The frame a send put on the queue of a session, if it put one
Enqueued(before, after, frame) ==
    IF Len(after.queue) > Len(before.queue) THEN <<frame>> ELSE <<>>

\* list_sessions
list_sessions ==
    [count |-> Cardinality(sessions),
     sessions |-> {[session_id |-> id, active |-> sse_objects[id].active,
                    queue_size |-> Len(sse_objects[id].queue)] :
                   id \in sessions}]

\* The X-MCP-Server header of a POST /message ("" when absent)
TargetHeaders == {"", "known_stdio", "unknown"}

\* app.state.server_registry: not set, or a registry with no server or
\* with the servers of ServerOrder
ServerRegistries == {NoneObj, [servers |-> <<>>], [servers |-> ServerOrder]}

\* ServerRegistry.call for a server the registry does not know
SseUnknownServer(target, id) ==
    JSONRPCResponse(NoneObj,
        JSONRPCError(INVALID_REQUEST, <<"Unknown server", target>>,
                     [available |-> server_registry.servers]),
        id)

\* What ServerRegistry.call returns without waiting for a known server: the
\* rejection of an open breaker
SseRejected(target, id) ==
    JSONRPCResponse(NoneObj,
        JSONRPCError(SERVER_ERROR, <<"circuit breaker open", target>>,
                     NoneObj),
        id)

\* What ServerRegistry.call returns after its dispatch: the backend's
\* reply, with the id the backend put in it (the request's id, or none), or
\* the error built from an exception
RegistryReturns(id) ==
    {JSONRPCResponse([tools |-> <<>>], NoneObj, i) : i \in {id, None}}
    \cup {UpstreamErrorResponse("TimeoutError", id)}

\* The error responses sse_message builds itself
SseErrorResponse(code, message, id) ==
    JSONRPCResponse(NoneObj, [code |-> code, message |-> message], id)

IdlePost == [pc |-> "idle"]

\* A handler suspended in request.json()
ReadingPost(session_id) == [pc |-> "reading", session_id |-> session_id]

\* A handler suspended in server_registry.call
CallingPost(session_id, id, target) ==
    [pc |-> "calling", session_id |-> session_id, id |-> id,
     target |-> target]

\* History of a handler's step; status is the HTTP error or the status of
\* the answer, "" while the handler is suspended
SseEvent(op, session_id, answer, id) ==
    [op |-> op, session_id |-> session_id, status |-> answer, id |-> id]

\* A validation that accepts every session that was ever created.
session_valid_created(session_id) == session_id \in DOMAIN sse_objects

\* sse_message: session = sessions.get(session_id);
\* not (not session or not session.active)
session_valid(session_id) ==
    session_id \in sessions /\ sse_objects[session_id].active

-----------------------------------------------------------------------------
(* SpecSse: clients opening SSE streams, posting messages and closing      *)
(* sessions.                                                               *)

SseInit ==
    /\ sessions = {}
    /\ sse_objects = <<>>
    /\ sse_pump = <<>>
    /\ sse_sent = <<>>
    /\ sse_delivered = <<>>
    /\ server_registry \in ServerRegistries
    /\ sse_posts = [t \in Tasks |-> IdlePost]
    /\ sse_n = 0
    /\ sse_event = NoneObj

\* GET /sse: sse_connect up to the return of the StreamingResponse
SseConnect(base_url) ==
    /\ Cardinality(DOMAIN sse_objects) < MaxSessions
    /\ LET id == uuid4(Cardinality(DOMAIN sse_objects) + 1)
           session == send(SSESession, "endpoint", message_url(base_url, id))
       IN  /\ sse_objects' = (id :> session) @@ sse_objects
           /\ sessions' = sessions \cup {id}
           /\ sse_pump' = (id :> "unstarted") @@ sse_pump
           /\ sse_sent' =
                 (id :> Enqueued(SSESession, session,
                         Frame("endpoint", message_url(base_url, id))))
                 @@ sse_sent
           /\ sse_delivered' = (id :> <<>>) @@ sse_delivered
           /\ sse_event' = SseEvent("connect", id, "200", None)
    /\ UNCHANGED <<server_registry, sse_posts, sse_n, others_SSE>>

\* del sessions[session_id]: the registry afterwards and the exception
\* raised ("" for none)
del_session(reg, session_id) ==
    IF session_id \in reg
    THEN [sessions |-> reg \ {session_id}, exc |-> ""]
    ELSE [sessions |-> reg, exc |-> "KeyError"]

\* A finally block that deletes without looking whether the session is
\* still registered.
discard_session_unguarded(reg, session_id) == del_session(reg, session_id)

\* event_generator's finally: if session.session_id in sessions: del ...
discard_session(reg, session_id) ==
    IF session_id \in reg THEN del_session(reg, session_id)
    ELSE [sessions |-> reg, exc |-> ""]

\* event_generator's finally block; the generator ends, or is left by the
\* exception the block raised
PumpFinally(id) ==
    /\ sse_objects' = [sse_objects EXCEPT ![id] = close(@)]
    /\ sessions' = discard_session(sessions, id).sessions
    /\ sse_pump' = [sse_pump EXCEPT ![id] =
                       IF discard_session(sessions, id).exc = ""
                       THEN "done" ELSE "raised"]

\* The response starts to stream: event_generator runs to its first await
PumpStart(id) ==
    /\ sse_pump[id] = "unstarted"
    /\ IF sse_objects[id].active
       THEN /\ sse_pump' = [sse_pump EXCEPT ![id] = "waiting"]
            /\ UNCHANGED <<sessions, sse_objects>>
       ELSE PumpFinally(id)
    /\ UNCHANGED <<sse_sent, sse_delivered, server_registry, sse_posts,
                   sse_n, sse_event, others_SSE>>

\* The client is gone before the response started to stream: the
\* generator object is dropped without having run, so neither its body
\* nor its finally block is executed
PumpAbandon(id) ==
    /\ sse_pump[id] = "unstarted"
    /\ sse_pump' = [sse_pump EXCEPT ![id] = "abandoned"]
    /\ UNCHANGED <<sessions, sse_objects, sse_sent, sse_delivered,
                   server_registry, sse_posts, sse_n, sse_event, others_SSE>>

\* queue.get() returns the oldest frame and the generator yields it
PumpDeliver(id) ==
    /\ sse_pump[id] = "waiting"
    /\ sse_objects[id].queue # <<>>
    /\ sse_delivered' = [sse_delivered EXCEPT
                           ![id] = Append(@, Head(sse_objects[id].queue))]
    /\ sse_objects' = [sse_objects EXCEPT ![id].queue = Tail(@)]
    /\ sse_pump' = [sse_pump EXCEPT ![id] = "yielded"]
    /\ UNCHANGED <<sessions, sse_sent, server_registry, sse_posts, sse_n,
                   sse_event, others_SSE>>

\* wait_for times out after 30 s on an empty queue: a keepalive comment
\* is yielded
PumpKeepalive(id) ==
    /\ sse_pump[id] = "waiting"
    /\ sse_objects[id].queue = <<>>
    /\ sse_pump' = [sse_pump EXCEPT ![id] = "yielded"]
    /\ UNCHANGED <<sessions, sse_objects, sse_sent, sse_delivered,
                   server_registry, sse_posts, sse_n, sse_event, others_SSE>>

\* The stream asks for the next chunk: while session.active
PumpResume(id) ==
    /\ sse_pump[id] = "yielded"
    /\ IF sse_objects[id].active
       THEN /\ sse_pump' = [sse_pump EXCEPT ![id] = "waiting"]
            /\ UNCHANGED <<sessions, sse_objects>>
       ELSE PumpFinally(id)
    /\ UNCHANGED <<sse_sent, sse_delivered, server_registry, sse_posts,
                   sse_n, sse_event, others_SSE>>

\* The client disconnects and the streaming task is cancelled: the
\* generator leaves through its finally block
PumpCancel(id) ==
    /\ sse_pump[id] \in {"waiting", "yielded"}
    /\ PumpFinally(id)
    /\ UNCHANGED <<sse_sent, sse_delivered, server_registry, sse_posts,
                   sse_n, sse_event, others_SSE>>

\* The handler of task t sends response on the session it looked up and
\* answers with status
SseAnswer(t, session_id, response, answer, id) ==
    LET before == sse_objects[session_id]
        after == send_json_rpc(before, response)
    IN  /\ sse_objects' = [sse_objects EXCEPT ![session_id] = after]
        /\ sse_sent' = [sse_sent EXCEPT
                          ![session_id] =
                              @ \o Enqueued(before, after,
                                            Frame("message", response))]
        /\ sse_posts' = [sse_posts EXCEPT ![t] = IdlePost]
        /\ sse_event' = SseEvent("message", session_id, answer, id)

\* POST /message: sse_message up to request.json()
SsePost(t, session_id) ==
    /\ sse_n < MaxRequests
    /\ sse_posts[t] = IdlePost
    /\ sse_n' = sse_n + 1
    /\ IF session_valid(session_id)
       THEN /\ sse_posts' = [sse_posts EXCEPT ![t] = ReadingPost(session_id)]
            /\ sse_event' = SseEvent("message", session_id, "", None)
       ELSE /\ sse_event' = SseEvent("message", session_id, "404", None)
            /\ UNCHANGED sse_posts
    /\ UNCHANGED <<sessions, sse_objects, sse_pump, sse_sent, sse_delivered,
                   server_registry, others_SSE>>

\* sse_message from the body on, up to the dispatch inside
\* server_registry.call or to the answer: parsed says whether the body is
\* a JSON-RPC request, id is its id and header its X-MCP-Server
SseBody(t, parsed, id, header) ==
    /\ sse_posts[t].pc = "reading"
    /\ LET sid == sse_posts[t].session_id
           servers_ == server_registry.servers
           target == IF header # "" THEN header ELSE servers_[1]
       IN  IF ~parsed
           THEN SseAnswer(t, sid,
                    SseErrorResponse(PARSE_ERROR, "Parse error", None),
                    "error_sent", None)
           ELSE IF server_registry = NoneObj
           THEN SseAnswer(t, sid,
                    SseErrorResponse(INTERNAL_ERROR,
                        "Server registry not available", id),
                    "error_sent", id)
           ELSE IF header = "" /\ servers_ = <<>>
           THEN SseAnswer(t, sid,
                    SseErrorResponse(INVALID_REQUEST,
                        "No target server specified", id),
                    "error_sent", id)
           ELSE IF target \notin {servers_[i] : i \in DOMAIN servers_}
           THEN SseAnswer(t, sid, SseUnknownServer(target, id),
                          "response_sent", id)
           ELSE \/ SseAnswer(t, sid, SseRejected(target, id),
                             "response_sent", id)
                \/ /\ sse_posts' = [sse_posts EXCEPT
                                      ![t] = CallingPost(sid, id, target)]
                   /\ sse_event' = SseEvent("message", sid, "", id)
                   /\ UNCHANGED <<sse_objects, sse_sent>>
    /\ UNCHANGED <<sessions, sse_pump, sse_delivered, server_registry, sse_n,
                   others_SSE>>

\* server_registry.call returns response: it is sent and acknowledged
SseReturn(t, response) ==
    /\ sse_posts[t].pc = "calling"
    /\ SseAnswer(t, sse_posts[t].session_id, response, "response_sent",
                 sse_posts[t].id)
    /\ UNCHANGED <<sessions, sse_pump, sse_delivered, server_registry, sse_n,
                   others_SSE>>

\* DELETE /sse/{session_id}: sse_disconnect
SseDisconnect(session_id) ==
    /\ sse_n < MaxRequests
    /\ sse_n' = sse_n + 1
    /\ IF session_id \in sessions
       THEN /\ sse_objects' = [sse_objects EXCEPT ![session_id] = close(@)]
            /\ sessions' = del_session(sessions, session_id).sessions
            /\ sse_event' =
                  SseEvent("disconnect", session_id,
                           IF del_session(sessions, session_id).exc = ""
                           THEN "closed"
                           ELSE del_session(sessions, session_id).exc,
                           None)
       ELSE /\ sse_event' = SseEvent("disconnect", session_id, "404", None)
            /\ UNCHANGED <<sessions, sse_objects>>
    /\ UNCHANGED <<sse_pump, sse_sent, sse_delivered, server_registry,
                   sse_posts, others_SSE>>

\* The steps of the event_generator of session id
PumpStep(id) ==
    \/ PumpStart(id)
    \/ PumpDeliver(id)
    \/ PumpKeepalive(id)
    \/ PumpResume(id)

SseNext ==
    \/ \E base_url \in BaseUrls : SseConnect(base_url)
    \/ \E id \in DOMAIN sse_objects : PumpStep(id)
    \/ \E id \in DOMAIN sse_objects : PumpAbandon(id)
    \/ \E id \in DOMAIN sse_objects : PumpCancel(id)
    \/ \E t \in Tasks, id \in DOMAIN sse_objects \cup {StrangerId} :
          SsePost(t, id)
    \/ \E t \in Tasks, parsed \in BOOLEAN, id \in ReqIds,
          header \in TargetHeaders : SseBody(t, parsed, id, header)
    \/ \E t \in Tasks :
          \E response \in RegistryReturns(
                 IF sse_posts[t].pc = "calling" THEN sse_posts[t].id
                 ELSE None) : SseReturn(t, response)
    \/ \E id \in DOMAIN sse_objects \cup {StrangerId} : SseDisconnect(id)

InitSse ==
    /\ SseInit
    /\ now = 0
    /\ BIdle
    /\ RIdle
    /\ SIdle
    /\ CIdle
    /\ EIdle

SpecSse == InitSse /\ [][SseNext]_vars

\* The event loop runs every generator that can take a step: a response
\* that has started is iterated, a 30 s wait ends, a yielded chunk is
\* written and the next one asked for.
FairSpecSse ==
    /\ SpecSse
    /\ \A k \in 1..MaxSessions : WF_vars(uuid4(k) \in DOMAIN sse_objects
                                          /\ PumpStep(uuid4(k)))

-----------------------------------------------------------------------------
(* Properties of the breaker, checked under SpecBreaker *)

\* C1: over record_failure() calls with no record_success() between them,
\* each call adds exactly 1 to the failure counter, the state is OPEN right
\* after the T-th such call (and after every later one), and the breaker is
\* not OPEN while its counter is below the threshold T.
C1_FailuresOpenAtThreshold ==
    /\ b_op = "record_failure" => breaker.failures = b_pre.failures + 1
    /\ b_op = "record_failure" /\ b_streak >= breaker.failure_threshold
          => breaker.state = "OPEN"
    /\ breaker.failures < breaker.failure_threshold => breaker.state # "OPEN"
    /\ b_streak < breaker.failure_threshold => breaker.state # "OPEN"

\* The third of three consecutive failures has just opened a CLOSED breaker
\* of threshold 3.
C1_Witness ==
    /\ b_op = "record_failure"
    /\ breaker.failure_threshold = 3
    /\ b_streak = 3
    /\ b_pre.state = "CLOSED"
    /\ breaker.state = "OPEN"

\* C2: on an OPEN breaker can_execute() returns false and changes nothing
\* while now - last_failure <= recovery_timeout; called strictly later it
\* returns true and moves the breaker to HALF_OPEN, which happens at most
\* once each time the breaker has entered OPEN; on a CLOSED breaker it
\* returns true and changes nothing.
C2_RecoveryAdmission ==
    /\ breaker.state = "OPEN" => breaker.last_failure # None
    /\ b_opens <= 1
    /\ b_op = "can_execute" /\ b_pre.state = "CLOSED"
          => b_ret /\ breaker = b_pre
    /\ b_op = "can_execute" /\ b_pre.state = "OPEN"
          /\ now - b_pre.last_failure <= b_pre.recovery_timeout
          => ~b_ret /\ breaker = b_pre
    /\ b_op = "can_execute" /\ b_pre.state = "OPEN"
          /\ now - b_pre.last_failure > b_pre.recovery_timeout
          => b_ret /\ breaker = [b_pre EXCEPT !.state = "HALF_OPEN"]

\* can_execute() has just refused at the very instant recovery_timeout (> 0)
\* elapsed: the boundary case of the comparison.
C2_WitnessBoundary ==
    /\ b_op = "can_execute"
    /\ b_pre.state = "OPEN"
    /\ b_pre.recovery_timeout > 0
    /\ now - b_pre.last_failure = b_pre.recovery_timeout
    /\ ~b_ret
    /\ breaker.state = "OPEN"

\* C3: record_success() leaves the breaker CLOSED with a zero counter and
\* the same last_failure, whatever state it was called in.
C3_SuccessCloses ==
    b_op = "record_success" =>
        /\ breaker.state = "CLOSED"
        /\ breaker.failures = 0
        /\ breaker.last_failure = b_pre.last_failure
        /\ breaker.last_success = now

\* record_success() has just closed a breaker that was OPEN.
C3_Witness ==
    /\ b_op = "record_success"
    /\ b_pre.state = "OPEN"
    /\ b_pre.failures >= b_pre.failure_threshold
    /\ breaker.last_failure # None
    /\ breaker.state = "CLOSED"

\* C4: record_failure() on a HALF_OPEN breaker reopens it, adds 1 to the
\* counter (which the half-open transition had not reset) and stamps
\* last_failure with the time of the call, so that can_execute() admits
\* again only strictly more than recovery_timeout after the failed probe.
C4_FailedProbeReopens ==
    /\ breaker.state = "HALF_OPEN"
          => breaker.failures >= breaker.failure_threshold
    /\ b_op = "record_failure" /\ b_pre.state = "HALF_OPEN" =>
          /\ breaker.state = "OPEN"
          /\ breaker.failures = b_pre.failures + 1
          /\ breaker.last_failure = now
          /\ \A t \in now..(MaxTime + MaxRecovery + 1) :
                can_execute(breaker, t).ret
                    <=> (t - now > breaker.recovery_timeout)

\* A probe admitted after the recovery timeout has just failed.
C4_Witness ==
    /\ b_op = "record_failure"
    /\ b_pre.state = "HALF_OPEN"
    /\ b_pre.last_failure < now
    /\ breaker.state = "OPEN"
    /\ breaker.failures = b_pre.failures + 1

-----------------------------------------------------------------------------
(* Properties of ServerRegistry.call, checked under SpecRegistry.  A step  *)
(* of a call is recognised by the r_event it leaves.                       *)

\* The step is the synchronous first part of a call to a configured server.
BeginsKnown ==
    /\ r_event' # NoneObj
    /\ r_event'.step = "begin"
    /\ r_event'.server \in DOMAIN servers

\* The error code of a response, or 0 when it carries no error.
CodeOf(resp) == IF resp.error = NoneObj THEN 0 ELSE resp.error.code

\* C5: with the registry's threshold of 3, a call begun after three
\* consecutive recorded upstream failures to a backend and no later than
\* recovery_timeout after the last of them is answered -32000 without the
\* request being handed to the backend; begun after recovery_timeout has
\* elapsed it is not rejected and (the transport being configured) goes out
\* to the backend; and a dispatch that completes without an exception
\* leaves the breaker CLOSED with failures = 0.
C5_OpenRejectRecover ==
    [][ /\ \A n \in ServerNames :
              circuit_breakers[n] # NoneObj => circuit_breakers[n].failure_threshold = 3
        /\ BeginsKnown /\ r_streak[r_event'.server] >= 3 =>
              LET s == r_event'.server
              IN  IF now - circuit_breakers[s].last_failure <= DefaultRecoveryTimeout
                  THEN /\ r_event'.resp # NoneObj
                       /\ CodeOf(r_event'.resp) = SERVER_ERROR
                       /\ ~r_event'.contacted
                       /\ calls' = calls
                  ELSE /\ r_event'.resp # NoneObj
                            => CodeOf(r_event'.resp) # SERVER_ERROR
                       /\ RaisedBeforeSend(s) = ""
                            => r_event'.contacted /\ r_event'.resp = NoneObj
        /\ /\ r_event' # NoneObj
           /\ r_event'.step = "complete"
           /\ CodeOf(r_event'.resp) # UPSTREAM_ERROR
           => /\ circuit_breakers'[r_event'.server].state = "CLOSED"
              /\ circuit_breakers'[r_event'.server].failures = 0
      ]_vars

\* The probe sent after the recovery timeout, following three consecutive
\* upstream failures, has just succeeded and closed the breaker.
C5_Witness ==
    /\ r_event # NoneObj
    /\ r_event.step = "complete"
    /\ r_event.streak = 3
    /\ r_event.resp.error = NoneObj
    /\ circuit_breakers[r_event.server].state = "CLOSED"
    /\ circuit_breakers[r_event.server].failures = 0
    /\ circuit_breakers[r_event.server].last_failure # None
    /\ now - circuit_breakers[r_event.server].last_failure > DefaultRecoveryTimeout

\* C6: a call for a name that is not configured is answered -32600 with
\* data.available listing exactly the configured names, hands nothing to
\* any backend and leaves the breaker registry, the id generators and the
\* calls in flight as they were.
C6_UnknownServer ==
    [][ /\ r_event' # NoneObj
        /\ r_event'.step = "begin"
        /\ r_event'.server \notin DOMAIN servers
        => /\ r_event'.resp # NoneObj
           /\ CodeOf(r_event'.resp) = INVALID_REQUEST
           /\ r_event'.resp.result = NoneObj
           /\ LET available == r_event'.resp.error.data.available
              IN  /\ {available[i] : i \in DOMAIN available} = DOMAIN servers
                  /\ Len(available) = Cardinality(DOMAIN servers)
           /\ ~r_event'.contacted
           /\ circuit_breakers' = circuit_breakers
           /\ id_gen' = id_gen
           /\ calls' = calls
      ]_vars

\* An unknown name has just been answered while a configured backend's
\* breaker exists, and no breaker was made for the unknown name.
C6_Witness ==
    /\ r_event # NoneObj
    /\ r_event.server = "unknown"
    /\ CodeOf(r_event.resp) = INVALID_REQUEST
    /\ circuit_breakers["unknown"] = NoneObj
    /\ \E n \in ServerNames : circuit_breakers[n] # NoneObj

\* C7: when the breaker of a configured backend refuses admission, the
\* call is answered -32000 with the breaker's snapshot in data.state,
\* nothing is handed to the backend (no request, no id drawn from a stdio
\* adapter), and the breaker is left as it was; and -32000 is returned by
\* the first part of a call in no other case.
C7_Rejection ==
    [][ BeginsKnown =>
          LET s == r_event'.server
              refused == ~can_execute(breakers_get(circuit_breakers, s)[s], now).ret
          IN  /\ refused =>
                    /\ r_event'.resp # NoneObj
                    /\ CodeOf(r_event'.resp) = SERVER_ERROR
                    /\ r_event'.resp.result = NoneObj
                    /\ r_event'.resp.error.data.state
                           = status(s, circuit_breakers[s])
                    /\ ~r_event'.contacted
                    /\ circuit_breakers' = circuit_breakers
                    /\ id_gen' = id_gen
                    /\ calls' = calls
                    /\ r_streak' = r_streak
              /\ r_event'.resp # NoneObj
                    /\ CodeOf(r_event'.resp) = SERVER_ERROR => refused
      ]_vars

\* A call has just been rejected by an OPEN breaker.
C7_Witness ==
    /\ r_event # NoneObj
    /\ r_event.step = "begin"
    /\ r_event.resp # NoneObj
    /\ CodeOf(r_event.resp) = SERVER_ERROR
    /\ ~r_event.contacted
    /\ circuit_breakers[r_event.server].state = "OPEN"
    /\ r_event.resp.error.data.state.failures >= 3

\* C8: an admitted call to a configured backend always returns a response:
\* when the dispatch completes with a reply, success is recorded once
\* (CLOSED, failures = 0, last_success = now) and the reply is returned;
\* when the dispatch raises, before or after the request went out, failure
\* is recorded once (failures + 1, last_failure = now) and the response is
\* a -32002 error carrying the exception's message and the request's id.
C8_SuccessOrUpstreamError ==
    [][ /\ r_event' # NoneObj /\ r_event'.step = "complete" =>
              LET s == r_event'.server
                  o == r_event'.outcome
                  resp == r_event'.resp
                  t == CHOOSE u \in Tasks : calls'[u] # calls[u]
              IN  /\ calls[t].pc = "awaiting"
                  /\ calls[t].server = s
                  /\ calls'[t] = IdleCall
                  /\ resp # NoneObj
                  /\ o.kind = "reply" =>
                        /\ circuit_breakers'[s].state = "CLOSED"
                        /\ circuit_breakers'[s].failures = 0
                        /\ circuit_breakers'[s].last_success = now
                        /\ circuit_breakers'[s].last_failure
                               = circuit_breakers[s].last_failure
                        /\ resp.id = o.id
                        /\ o.body = "result" =>
                              resp.error = NoneObj /\ resp.result # NoneObj
                        /\ o.body = "error" =>
                              /\ CodeOf(resp) = METHOD_NOT_FOUND
                              /\ resp.result = NoneObj
                  /\ o.kind = "raise" =>
                        /\ circuit_breakers'[s].failures
                               = circuit_breakers[s].failures + 1
                        /\ circuit_breakers'[s].last_failure = now
                        /\ circuit_breakers'[s].last_success
                               = circuit_breakers[s].last_success
                        /\ CodeOf(resp) = UPSTREAM_ERROR
                        /\ resp.error.message = o.exc
                        /\ resp.result = NoneObj
                        /\ resp.id = calls[t].id
        /\ BeginsKnown =>
              LET s == r_event'.server
                  b == breakers_get(circuit_breakers, s)[s]
                  resp == r_event'.resp
              IN  can_execute(b, now).ret /\ RaisedBeforeSend(s) # "" =>
                    /\ resp # NoneObj
                    /\ CodeOf(resp) = UPSTREAM_ERROR
                    /\ resp.error.message = RaisedBeforeSend(s)
                    /\ resp.id = r_event'.id
                    /\ circuit_breakers'[s].failures = b.failures + 1
                    /\ circuit_breakers'[s].last_failure = now
      ]_vars

\* A dispatch that was sent to the stdio backend has just raised and the
\* call has answered -32002, the failure being the breaker's second.
C8_Witness ==
    /\ r_event # NoneObj
    /\ r_event.step = "complete"
    /\ r_event.server = "known_stdio"
    /\ CodeOf(r_event.resp) = UPSTREAM_ERROR
    /\ r_event.resp.error.message = "TimeoutError"
    /\ circuit_breakers[r_event.server].failures = 2
    /\ circuit_breakers[r_event.server].state = "CLOSED"

\* C9: the id of the response a call returns equals the id of its request,
\* on every path.
C9_ResponseIdMatches ==
    r_event # NoneObj /\ r_event.resp # NoneObj
        => r_event.resp.id = r_event.id

-----------------------------------------------------------------------------
(* Properties of the stdio adapter, checked under SpecStdio *)

\* At most one call of the adapter is past taking the lock, so at most one
\* is between writing its line and the end of its read, and it is the owner
\* of the lock.
StdioSerialized ==
    /\ Cardinality({t \in Tasks :
                        s_calls[t].pc \in {"locked", "draining", "reading"}})
          <= 1
    /\ \A t \in Tasks :
          s_calls[t].pc \in {"locked", "draining", "reading"}
              => lock.owner = t

\* A request line goes to the child whole while no other call has a line
\* out: the lines in the child's stdin are distinct lines, in the order
\* they were written, and a line is written only by the one call that is
\* past the lock.
StdioWholeLines ==
    /\ process # NoneObj =>
          \A i, j \in DOMAIN process.stdin :
              i < j => process.stdin[i].n < process.stdin[j].n
    /\ s_event # NoneObj /\ s_event.kind = "write" =>
          \A u \in Tasks :
              u # s_event.task
                  => s_calls[u].pc \notin {"locked", "draining", "reading"}

\* The response line a call returns is the answer to the request line that
\* call wrote.
StdioPaired ==
    s_event # NoneObj /\ s_event.kind = "return"
        => s_event.line.n = s_event.sent

\* C10: per stdio adapter, concurrent call() invocations are strictly
\* serialized (at most one call is between writing its request line and
\* finishing its read), request lines are written whole and never
\* interleaved on stdin, and responses are paired with requests in FIFO
\* order: every call that returns, returns the answer to its own request.
C10_SerializedFifo ==
    /\ StdioSerialized
    /\ StdioWholeLines
    /\ StdioPaired

\* C11: every StdioAdapter.call that returns a response returns one whose
\* id is the id of the request line that call wrote (after id assignment),
\* in every sequence of calls, also after calls that timed out or failed.
C11_StdioRoundTripId ==
    s_event # NoneObj /\ s_event.kind = "return"
        => s_event.line.id = s_event.id

\* The steps of task t that go through _restart: its send when the process
\* is not healthy, and its read when nothing arrives in time.
NeedsRestart(t) ==
    \/ /\ s_calls[t].pc = "locked"
       /\ s_calls'[t].pc # "locked"
       /\ ~is_healthy(process)
    \/ /\ s_calls[t].pc = "reading"
       /\ s_calls'[t].pc = "idle"
       /\ process.stdout = <<>>
       /\ process.state = "running"

\* C12 (as the code has it): once restart_count has reached max_restarts,
\* a call that needs a restart (the process is not healthy when the call
\* starts, or the response does not arrive in time) fails with RuntimeError,
\* spawns no child and leaves the process as it is, and restart_count stays
\* at max_restarts through every step.
C12_RestartCeiling ==
    [][ /\ restart_count = max_restarts => restart_count' = max_restarts
        /\ \A t \in Tasks :
              restart_count = max_restarts /\ NeedsRestart(t) =>
                  /\ s_event'.kind = "raise"
                  /\ s_event'.exc = "RuntimeError"
                  /\ s_event'.spawned = 0
                  /\ s_spawns' = s_spawns
                  /\ process' = process
      ]_vars

\* A call has just found the process unhealthy at the ceiling and raised
\* RuntimeError without writing a line or spawning a child.
C12_Witness ==
    /\ s_event # NoneObj
    /\ s_event.kind = "raise"
    /\ s_event.exc = "RuntimeError"
    /\ s_event.sent = 0
    /\ restart_count = max_restarts
    /\ s_spawns = max_restarts + 1
    /\ ~is_healthy(process)

\* C12 as stated, its first part: after max_restarts consecutive failed
\* calls the next call fails, that is, it does not return a response.
C12_AfterConsecutiveFailures ==
    [][ s_fails >= max_restarts /\ s_event' # NoneObj
            => s_event'.kind # "return"
      ]_vars

\* C13: when the child has exited (is_healthy() is false) and restart_count
\* is below max_restarts, the next call stops the old handle, spawns a new
\* child, adds exactly 1 to restart_count and writes its request to the new
\* child, whose pipes hold nothing else (start() itself raising is left
\* aside: then the count is up by one and no line is written).
C13_RestartOnUnhealthy ==
    [][ \A t \in Tasks :
          /\ s_calls[t].pc = "locked"
          /\ s_calls'[t].pc # "locked"
          /\ process # NoneObj
          /\ ~is_healthy(process)
          /\ restart_count < max_restarts
          => /\ restart_count' = restart_count + 1
             /\ \/ s_event'.kind = "raise" /\ s_event'.exc = "OSError"
                \/ /\ s_event'.kind = "write"
                   /\ s_spawns' = s_spawns + 1
                   /\ process'.state = "running"
                   /\ process'.stdin =
                          IF s_calls'[t].pc = "draining" THEN <<>>
                          ELSE <<Line(s_event'.id, s_event'.sent)>>
                   /\ process'.stdout = <<>>
      ]_vars

-----------------------------------------------------------------------------
(* Properties of the registry's error reporting, checked under SpecRegistry *)

\* C14: when a stdio backend does not answer within the per-call timeout,
\* the response the routing call returns is a JSON-RPC error whose code is
\* TIMEOUT (-32001).
C14_TimeoutCode ==
    /\ r_event # NoneObj
    /\ r_event.resp # NoneObj
    /\ r_event.resp.error # NoneObj
    /\ r_event.resp.error.message = "TimeoutError"
    => r_event.resp.error.code = TIMEOUT

\* C15: POST /mcp/{server} with a body that parses answers with the
\* response the registry returned, HTTP 200 exactly when that response
\* carries no error and HTTP 502 when it carries one (unknown server,
\* breaker open, upstream failure, or an error relayed from the backend);
\* with a body that does not parse it answers 400 with PARSE_ERROR and
\* leaves the registry, its breakers and the calls in flight untouched.
C15_ProxyStatus ==
    [][ r_event' # NoneObj /\ r_event'.resp # NoneObj =>
          LET parsed == r_event'.step # "parse_error"
              http == proxy_mcp_json_rpc(parsed, r_event'.resp)
          IN  IF parsed
              THEN /\ http.content = r_event'.resp
                   /\ http.status_code = 200 <=> r_event'.resp.error = NoneObj
                   /\ r_event'.resp.error # NoneObj => http.status_code = 502
                   /\ CodeOf(r_event'.resp) \in
                         {INVALID_REQUEST, SERVER_ERROR, UPSTREAM_ERROR,
                          METHOD_NOT_FOUND}
                         => http.status_code = 502
              ELSE /\ http.status_code = 400
                   /\ CodeOf(http.content) = PARSE_ERROR
                   /\ http.content.id = None
                   /\ UNCHANGED <<circuit_breakers, calls, id_gen, r_streak,
                                  stdio_adapters>>
      ]_vars

\* The registry has just relayed an error object of the backend, which the
\* proxy answers with HTTP 502.
C15_Witness ==
    /\ r_event # NoneObj
    /\ r_event.step = "complete"
    /\ CodeOf(r_event.resp) = METHOD_NOT_FOUND
    /\ proxy_mcp_json_rpc(TRUE, r_event.resp).status_code = 502

-----------------------------------------------------------------------------
(* Properties of the prompt cache, checked under SpecCache *)

\* The step is a call of get or put on the cache
CacheStep(op) == c_ops' = c_ops + 1 /\ c_event'.op = op

\* The four hit and miss counters and total_entries, without l1_hits
OtherCounters(c) ==
    <<c.stats.l1_misses, c.stats.l2_hits, c.stats.l2_misses,
      c.stats.total_entries>>

\* C16: a get of a prompt that was put and has not been evicted or cleared
\* since returns an entry with that prompt and the response and model of
\* its last put; the get adds exactly 1 to the hits of that entry and to
\* stats.l1_hits, and changes no other counter and no other entry.
C16_PutThenGet ==
    [][\A p \in Prompts :
          (/\ CacheStep("get")
           /\ c_event'.prompt = p
           /\ hash_prompt(p) \in Keys(cache.exact_cache))
          => LET h == hash_prompt(p)
                 before == Item(cache.exact_cache, h)
                 ret == c_event'.ret
             IN  /\ ret # NoneObj
                 /\ c_last[p] # NoneObj
                 /\ ret.prompt = p
                 /\ ret.response = c_last[p].response
                 /\ ret.model = c_last[p].model
                 /\ ret.hits = before.hits + 1
                 /\ Keys(cache'.exact_cache) = Keys(cache.exact_cache)
                 /\ Item(cache'.exact_cache, h) = ret
                 /\ \A k \in Keys(cache.exact_cache) \ {h} :
                       Item(cache'.exact_cache, k) = Item(cache.exact_cache, k)
                 /\ cache'.stats.l1_hits = cache.stats.l1_hits + 1
                 /\ OtherCounters(cache') = OtherCounters(cache)]_vars

\* C16's case: the second get of a prompt whose last put replaced an
\* earlier one, in a cache that holds another entry too.
C16_Witness ==
    /\ c_event # NoneObj
    /\ c_event.op = "get"
    /\ c_event.ret # NoneObj
    /\ c_event.ret.hits = 2
    /\ c_event.ret.response = "r2"
    /\ Len(cache.exact_cache) = 2
    /\ cache.stats.l1_hits = 2

\* Position of a prompt in the recency list
RecencyIndex(p) == CHOOSE i \in DOMAIN c_recency : c_recency[i].prompt = p

\* C17: a put into an L1 cache that holds max_size entries evicts the
\* least recently accessed entry (access is insertion by put or a hit by
\* get) and only that entry; and whenever an entry is evicted, no entry
\* that stays was accessed before the evicted entry's last hit by get.
C17_LruEviction ==
    [][CacheStep("put") =>
          LET p == c_event'.prompt
              old == Keys(cache.exact_cache)
              new == Keys(cache'.exact_cache)
          IN  /\ Len(cache.exact_cache) = cache.max_size
                 => new = (old \ {hash_prompt(c_recency[1].prompt)})
                              \cup {hash_prompt(p)}
              /\ \A e, q \in Prompts \ {p} :
                    (/\ hash_prompt(e) \in old \ new
                     /\ hash_prompt(q) \in old \cap new
                     /\ RecencyIndex(q) < RecencyIndex(e))
                    => c_recency[RecencyIndex(e)].op # "get"]_vars

-----------------------------------------------------------------------------
(* Properties of the enhancement middleware, checked under SpecEnhance *)

\* The step starts an enhance() call
EnhanceBegins == e_n' = e_n + 1 /\ e_event'.step \in {"posting", "done"}

\* C18: enhance() for a client whose rule is disabled returns enhanced =
\* original, model = none, cached = false, skipped = true, and changes
\* nothing: the cache (its entries, their order and its counters) is as
\* before and no request goes to the model service.
C18_DisabledRule ==
    [][(/\ EnhanceBegins
        /\ \/ ~e_event'.rule.enabled
           \/ e_event'.client = "off")
       => /\ e_event'.step = "done"
          /\ e_event'.result = SkippedResult(e_event'.prompt)
          /\ e_event'.result.enhanced = e_event'.result.original
          /\ e_event'.contacted = <<>>
          /\ cache' = cache
          /\ e_calls' = e_calls]_vars

\* C18's case: enhance() under a disabled rule for a prompt that is in the
\* cache, while another call is waiting for the model service.
C18_Witness ==
    /\ e_event # NoneObj
    /\ e_event.step = "done"
    /\ "skipped" \in DOMAIN e_event.result
    /\ hash_prompt(e_event.prompt) \in Keys(cache.exact_cache)
    /\ cache.stats.l1_hits = 0
    /\ \E t \in Tasks : e_calls[t].pc = "posting"

\* C19: an enhance() call under an enabled rule, for a prompt that is not
\* cached, in which no candidate model produced a response (each one
\* failed or was rejected for the context limit) returns enhanced =
\* original prompt, model = rule.model, cached = false and an error.
C19_FailureResult ==
    (/\ e_event # NoneObj
     /\ e_event.step = "done"
     /\ e_event.rule.enabled
     /\ ~e_event.result.cached
     /\ ~e_event.produced)
    => /\ e_event.result.enhanced = e_event.prompt
       /\ e_event.result.model = e_event.rule.model
       /\ "error" \in DOMAIN e_event.result
       /\ e_event.result.error # ""

\* s is the beginning of t
IsPrefix(s, t) == Len(s) <= Len(t) /\ SubSeq(t, 1, Len(s)) = s

\* The candidates that pass the context check, in list order
Eligible(prompt, models) ==
    SelectSeq(models, LAMBDA m : check_context_limit(prompt, m))

\* C20: on a cache miss under an enabled rule the candidates are contacted
\* in list order, every failing candidate is followed by the next one, and
\* the call ends with the first success: the text is stored under the
\* original prompt and returned with cached = false.  An enhance() of the
\* same prompt right after it returns cached = true with the same text,
\* adds exactly 1 to l1_hits and contacts no model.
C20_FirstSuccessWins ==
    [][/\ (/\ e_event'.step = "done"
           /\ e_event' # e_event
           /\ e_event'.rule.enabled
           /\ ~e_event'.result.cached)
          => LET ev == e_event'
                 h == hash_prompt(ev.prompt)
             IN  /\ IsPrefix(ev.contacted, Eligible(ev.prompt, ev.models))
                 /\ ~ev.produced
                       => ev.contacted = Eligible(ev.prompt, ev.models)
                 /\ ev.produced
                       => /\ h \in Keys(cache'.exact_cache)
                          /\ Item(cache'.exact_cache, h).prompt = ev.prompt
                          /\ Item(cache'.exact_cache, h).response
                                = ev.result.enhanced
       /\ (/\ e_event # NoneObj
           /\ e_event.step = "done"
           /\ e_event.produced
           /\ EnhanceBegins
           /\ e_event'.prompt = e_event.prompt
           /\ e_event'.rule.enabled)
          => /\ e_event'.step = "done"
             /\ e_event'.result.cached
             /\ e_event'.result.enhanced = e_event.result.enhanced
             /\ e_event'.contacted = <<>>
             /\ cache'.stats.l1_hits = cache.stats.l1_hits + 1
             /\ e_calls' = e_calls]_vars

-----------------------------------------------------------------------------
(* Properties of the SSE transport, checked under SpecSse and FairSpecSse *)

\* C21: per session, the events delivered to the stream followed by the
\* events still queued are exactly the events enqueued, in the order they
\* were enqueued; the first of them is the endpoint event with
\* <base_url>/message?session_id=<id> for the session's own id, and every
\* other one is a message event.
C21_FifoEndpointFirst ==
    \A id \in DOMAIN sse_objects :
        /\ sse_sent[id] = sse_delivered[id] \o sse_objects[id].queue
        /\ sse_sent[id] # <<>>
        /\ sse_sent[id][1] =
              [event |-> "endpoint",
               data |-> <<"http://gw:9090", "/message?session_id=", id>>]
        /\ \A i \in 2..Len(sse_sent[id]) : sse_sent[id][i].event = "message"

\* C21's case: a session whose stream has delivered the endpoint event and
\* two message events with different ids, while another session exists.
C21_Witness ==
    \E id \in DOMAIN sse_objects :
        /\ Len(sse_delivered[id]) = 3
        /\ sse_delivered[id][2].data.id # sse_delivered[id][3].data.id
        /\ Cardinality(DOMAIN sse_objects) = 2

\* The step is a POST /message for session id
PostFor(id) ==
    /\ sse_n' = sse_n + 1
    /\ sse_event'.op = "message"
    /\ sse_event'.session_id = id

\* C22: POST /message with a session id that is not registered, or whose
\* session is inactive, answers 404, enqueues no event on any session,
\* does not get to the server registry and changes no breaker.
C22_UnknownSession ==
    [][\A id \in DOMAIN sse_objects \cup {StrangerId} :
          (/\ PostFor(id)
           /\ \/ id \notin sessions
              \/ ~sse_objects[id].active)
          => /\ sse_event'.status = "404"
             /\ sse_objects' = sse_objects
             /\ sse_sent' = sse_sent
             /\ sse_posts' = sse_posts
             /\ sessions' = sessions
             /\ circuit_breakers' = circuit_breakers]_vars

\* C22's case: a POST for a session that was registered and is closed is
\* answered 404 while the other session is open.
C22_Witness ==
    /\ sse_event # NoneObj
    /\ sse_event.op = "message"
    /\ sse_event.status = "404"
    /\ sse_event.session_id \in DOMAIN sse_objects
    /\ sessions # {}

\* The step in which the handler of task t acknowledges with response_sent
Acknowledges(t) ==
    /\ sse_posts[t].pc \in {"reading", "calling"}
    /\ sse_posts'[t] = IdlePost
    /\ sse_event'.status = "response_sent"

\* The handler that acknowledges in this step has put exactly one message
\* event on the queue of its own session, and nothing on another queue.
C23_OneEventOnSession ==
    [][\A t \in Tasks :
          Acknowledges(t)
          => LET sid == sse_posts[t].session_id
             IN  /\ Len(sse_sent'[sid]) = Len(sse_sent[sid]) + 1
                 /\ sse_sent'[sid][Len(sse_sent'[sid])].event = "message"
                 /\ sse_objects'[sid].queue
                       = Append(sse_objects[sid].queue,
                                sse_sent'[sid][Len(sse_sent'[sid])])
                 /\ \A other \in DOMAIN sse_objects \ {sid} :
                       /\ sse_sent'[other] = sse_sent[other]
                       /\ sse_objects'[other] = sse_objects[other]]_vars

\* C23: a POST /message accepted for an active session with a valid body
\* and a target puts exactly one message event on that session's queue,
\* and on no other, before it acknowledges with response_sent; the id of
\* the event's response is the id of the request.
C23_MessageEvent ==
    [][\A t \in Tasks :
          Acknowledges(t)
          => LET sid == sse_posts[t].session_id
             IN  /\ Len(sse_sent'[sid]) = Len(sse_sent[sid]) + 1
                 /\ sse_sent'[sid][Len(sse_sent'[sid])].event = "message"
                 /\ sse_sent'[sid][Len(sse_sent'[sid])].data.id
                       = sse_event'.id
                 /\ \A other \in DOMAIN sse_objects \ {sid} :
                       sse_sent'[other] = sse_sent[other]]_vars

\* C24: DELETE /sse/{id} for a registered session marks it inactive and
\* unregisters it in one step (no session is registered and inactive);
\* from then on a POST /message or a DELETE for the id answers 404,
\* list_sessions does not report it, it is not registered again and no
\* event is put on its queue.
C24_Disconnect ==
    [][\A id \in DOMAIN sse_objects :
          /\ id \in sessions => sse_objects[id].active
          /\ (/\ id \in sessions
              /\ sse_n' = sse_n + 1
              /\ sse_event'.op = "disconnect"
              /\ sse_event'.session_id = id)
             => /\ sse_event'.status = "closed"
                /\ id \notin sessions'
                /\ ~sse_objects'[id].active
          /\ id \notin sessions
             => /\ id \notin sessions'
                /\ id \notin {r.session_id : r \in list_sessions.sessions}
                /\ sse_sent'[id] = sse_sent[id]
                /\ (sse_n' = sse_n + 1 /\ sse_event'.session_id = id)
                      => sse_event'.status = "404"]_vars

\* C24's case: a handler that was waiting for the registry when its
\* session was deleted has acknowledged, and nothing was queued.
C24_Witness ==
    /\ sse_event # NoneObj
    /\ sse_event.status = "response_sent"
    /\ sse_event.session_id \notin sessions
    /\ sse_n = 2
    /\ Len(sse_sent[sse_event.session_id]) = 1

\* The client of session id is gone or the session is closed: its stream
\* has ended or will never start, or the session is inactive
Gone(id) ==
    /\ id \in DOMAIN sse_objects
    /\ \/ sse_pump[id] \in {"abandoned", "done"}
       \/ ~sse_objects[id].active

\* Session id is out of the registry and its generator has ended
Destroyed(id) ==
    /\ id \in DOMAIN sse_objects
    /\ id \notin sessions
    /\ sse_pump[id] \in {"abandoned", "done"}

\* C25: every session whose stream was cancelled or never started, whose
\* client disconnected or which was closed is eventually out of the
\* registry with its generator ended.
C25_EventuallyDestroyed ==
    \A k \in 1..MaxSessions :
        [](Gone(uuid4(k)) => <>Destroyed(uuid4(k)))


\* The step in which a call leaves with exception exc while the restart
\* ceiling has not been reached
FailsBelowCeiling(exc) ==
    /\ s_event' # NoneObj
    /\ s_event'.kind = "raise"
    /\ s_event'.exc = exc
    /\ restart_count < max_restarts

\* The step went through _restart: the count is one higher and one new
\* child was spawned
Restarted ==
    /\ restart_count' = restart_count + 1
    /\ s_event'.spawned = 1
    /\ process' = StartedProcess

\* A call that fails with TimeoutError below the ceiling has restarted the
\* process.
C26_TimeoutRestarts ==
    [][FailsBelowCeiling("TimeoutError") => Restarted]_vars

\* C26: a call that fails because the response timed out, because the read
\* was empty (the child closed its pipe) or because the write failed has
\* gone through a restart before it raises: below the ceiling
\* restart_count is one higher and a new child was started.
C26_RestartOnFailure ==
    [][\A exc \in {"TimeoutError", "RuntimeError", "BrokenPipeError"} :
          FailsBelowCeiling(exc) => Restarted]_vars


\* The step in which the call of task t passes the id assignment: it
\* writes its request line, or the write raises
Assigns(t) ==
    /\ s_calls[t].pc = "locked"
    /\ s_event' # NoneObj
    /\ s_event'.task = t
    /\ s_event'.sent > 0

\* C27: the ids the generator hands out are 1, 2, 3, ...: the k-th request
\* that reaches the id assignment without an id is written with id k, so
\* the assigned ids are strictly increasing and never reused, also when
\* the process was restarted in between; a request that carries an id is
\* written with that id and takes no value from the generator; nothing
\* else moves the generator.
C27_GeneratedIds ==
    [][/\ \A k \in 1..Len(s_assigned') : s_assigned'[k] = k
       /\ request_id_gen' = Len(s_assigned') + 1
       /\ \A t \in Tasks :
             Assigns(t)
             => IF s_calls[t].id = None
                THEN /\ s_event'.id = Len(s_assigned) + 1
                     /\ s_assigned' = Append(s_assigned, s_event'.id)
                ELSE /\ s_event'.id = s_calls[t].id
                     /\ s_assigned' = s_assigned
       /\ (\A t \in Tasks : ~Assigns(t)) => s_assigned' = s_assigned
       /\ \A t \in Tasks :
             (s_event' # NoneObj /\ s_event'.task = t
              /\ s_event'.kind = "write")
             => /\ process'.stdin # <<>> /\ s_calls'[t].pc = "reading"
                   => process'.stdin[Len(process'.stdin)].id = s_event'.id
                /\ s_calls'[t].id = s_event'.id]_vars

\* C27's case: two ids were assigned, the second after a restart of the
\* process, with a request that carried its own id written in between.
C27_Witness ==
    /\ s_assigned = <<1, 2>>
    /\ restart_count > 0
    /\ s_nlines = 3
    /\ s_event # NoneObj
    /\ s_event.kind = "write"
    /\ s_event.id = 2
    /\ s_event.spawned = 1

\* The k-th request that arrives without an id is written with id k.
C27_ArrivalOrder ==
    [][\A t \in Tasks :
          (Assigns(t) /\ s_calls[t].id = None)
          => s_event'.id = s_calls[t].k]_vars


\* The hit and miss counters of stats after, minus those before:
\* <<l1_hits, l1_misses, l2_hits, l2_misses>>
CounterDelta(before, after) ==
    <<after.stats.l1_hits - before.stats.l1_hits,
      after.stats.l1_misses - before.stats.l1_misses,
      after.stats.l2_hits - before.stats.l2_hits,
      after.stats.l2_misses - before.stats.l2_misses>>

\* What a get may add to the counters of cache c: an L1 hit or an L1 miss;
\* with the miss an L2 hit or an L2 miss if L2 was searched, nothing if not
GetDeltas(c, prompt, embedding) ==
    IF hash_prompt(prompt) \in Keys(c.exact_cache)
    THEN {<<1, 0, 0, 0>>}
    ELSE IF embedding /\ c.qdrant_available
    THEN {<<0, 1, 1, 0>>, <<0, 1, 0, 1>>}
    ELSE {<<0, 1, 0, 0>>}

\* C28: every get adds 1 to exactly one of l1_hits and l1_misses; the L2
\* counters move only on a get that missed L1, was given an embedding and
\* found L2 available, and then exactly one of them by 1; with L2
\* unavailable or without embedding they stay; put changes none of the
\* four counters.  Stated of every get and put that can be called on the
\* cache as it is.
C28_Counters ==
    /\ \A q \in Prompts, embedding \in BOOLEAN :
          \A best_match \in find_similar_qdrant(cache) :
             CounterDelta(cache, get(cache, q, embedding, best_match).cache)
                \in GetDeltas(cache, q, embedding)
    /\ \A q \in Prompts, v \in PutValues, embedding, stored \in BOOLEAN :
          CounterDelta(cache, put(cache, q, v.response, v.model,
                                  embedding, stored))
             = <<0, 0, 0, 0>>

\* C28's case: gets have hit L1, missed L1 without searching L2, and
\* missed L1 with an L2 hit and with an L2 miss, after a put.
C28_Witness ==
    /\ cache.stats.l1_hits = 1
    /\ cache.stats.l1_misses = 3
    /\ cache.stats.l2_hits = 1
    /\ cache.stats.l2_misses = 1
    /\ cache.stats.total_entries = 1


\* Prompt q is cached before and after the step, which is not a clear and
\* in which put evicts nothing
StaysCached(q) ==
    /\ hash_prompt(q) \in Keys(cache.exact_cache)
    /\ hash_prompt(q) \in Keys(cache'.exact_cache)
    /\ c_event' # NoneObj
    /\ c_event'.op # "clear"
    /\ Len(cache.exact_cache) < cache.max_size

\* C29: while a prompt stays cached (no eviction, no clear), the prompt,
\* response and model of its entry are not changed by a get or by a put of
\* another prompt, and the hit count seen for the prompt never goes down,
\* whatever the step is: a get, a put of another prompt or a put of the
\* prompt itself.
C29_HitsMonotonic ==
    [][\A q \in Prompts :
          StaysCached(q)
          => LET before == Item(cache.exact_cache, hash_prompt(q))
                 after == Item(cache'.exact_cache, hash_prompt(q))
             IN  /\ after.hits >= before.hits
                 /\ ~(c_event'.op = "put" /\ c_event'.prompt = q)
                    => /\ after.prompt = before.prompt
                       /\ after.response = before.response
                       /\ after.model = before.model]_vars

\* While a prompt stays cached, a get or a put of another prompt leaves
\* the prompt, response and model of its entry as they are and does not
\* lower its hit count.
C29_OtherStepsKeepEntry ==
    [][\A q \in Prompts :
          (StaysCached(q) /\ ~(c_event'.op = "put" /\ c_event'.prompt = q))
          => LET before == Item(cache.exact_cache, hash_prompt(q))
                 after == Item(cache'.exact_cache, hash_prompt(q))
             IN  /\ after.hits >= before.hits
                 /\ after.prompt = before.prompt
                 /\ after.response = before.response
                 /\ after.model = before.model]_vars


\* seq without the elements of seen and without repetitions, in order
RECURSIVE Distinct(_, _)
Distinct(seq, seen) ==
    IF seq = <<>> THEN <<>>
    ELSE IF Head(seq) \in seen THEN Distinct(Tail(seq), seen)
    ELSE <<Head(seq)>> \o Distinct(Tail(seq), seen \cup {Head(seq)})

\* No element of seq occurs twice
NoRepeat(seq) ==
    \A i, j \in DOMAIN seq : i # j => seq[i] # seq[j]

\* The step is one of an enhance() call that missed the cache
TriesModels ==
    /\ e_event' # NoneObj
    /\ e_event'.step \in {"posting", "done"}
    /\ e_event'.models # <<>>

\* The candidate list of a call that missed the cache starts with the
\* rule's model and has no null in it, and no model of the chain is left
\* out of it.
C30_NoNulls ==
    [][TriesModels
       => /\ e_event'.models[1] = e_event'.rule.model
          /\ \A i \in DOMAIN e_event'.models :
                e_event'.models[i] # NoneModel
          /\ {e_event'.models[i] : i \in DOMAIN e_event'.models}
                = ({e_event'.rule.model}
                   \cup {config.fallback_chain[i] :
                           i \in DOMAIN config.fallback_chain})
                  \ {NoneModel}]_vars

\* Within one enhance call no model is contacted more than once.
C30_NoRepeatedContact ==
    [][TriesModels => NoRepeat(e_event'.contacted)]_vars

\* C30: the candidate list of a call that missed the cache is the rule's
\* model followed by the fallback chain without nulls and without
\* duplicates, in the chain's order; no model is contacted more than once
\* within one call.
C30_Candidates ==
    [][TriesModels
       => /\ e_event'.models
                = <<e_event'.rule.model>>
                  \o Distinct(config.fallback_chain,
                              {NoneModel, e_event'.rule.model})
          /\ NoRepeat(e_event'.contacted)]_vars


\* C31: in HALF_OPEN the breaker lets one request through: the caller whose
\* can_execute() made the OPEN to HALF_OPEN transition is the only one
\* admitted until record_success or record_failure is called, so a
\* can_execute() that finds the breaker in HALF_OPEN returns False.
C31_HalfOpenAdmitsOne ==
    [][(b_op' = "can_execute" /\ breaker.state = "HALF_OPEN")
       => ~b_ret']_vars


\* The step is one of a ServerRegistry.call for a configured server
CallStepFor(a) ==
    /\ r_event' # NoneObj
    /\ r_event'.step \in {"begin", "complete"}
    /\ r_event'.server = a

\* The breaker stored under b is OPEN
IsOpen(brs, b) == brs[b] # NoneObj /\ brs[b].state = "OPEN"

\* C32: get returns the breaker stored under the name, creates it once and
\* touches no other name's breaker; a step of a ServerRegistry.call to
\* backend a, whatever its outcome, leaves the breaker of every other
\* backend b as it is; and while a's breaker is OPEN a call to b, whose
\* own breaker is not OPEN, is not rejected: it is handed to the transport
\* or ends with the error its dispatch raised.
C32_FaultIsolation ==
    [][/\ \A a \in Names :
             LET got == breakers_get(circuit_breakers, a)
             IN  /\ got[a] # NoneObj
                 /\ circuit_breakers[a] # NoneObj
                    => got[a] = circuit_breakers[a]
                 /\ breakers_get(got, a) = got
                 /\ \A b \in Names \ {a} : got[b] = circuit_breakers[b]
       /\ \A a \in ServerNames :
             CallStepFor(a)
             => \A b \in Names \ {a} :
                   circuit_breakers'[b] = circuit_breakers[b]
       /\ \A a, b \in ServerNames :
             (/\ a # b
              /\ IsOpen(circuit_breakers, a)
              /\ ~IsOpen(circuit_breakers, b)
              /\ CallStepFor(b)
              /\ r_event'.step = "begin")
             => /\ IsOpen(circuit_breakers', a)
                /\ \/ r_event'.contacted
                   \/ CodeOf(r_event'.resp) = UPSTREAM_ERROR]_vars

\* C32's case: a call to one backend has been handed to its transport
\* while the breaker of the other backend is OPEN.
C32_Witness ==
    /\ r_event # NoneObj
    /\ r_event.step = "begin"
    /\ r_event.contacted
    /\ \E a \in ServerNames \ {r_event.server} :
          IsOpen(circuit_breakers, a)


\* C33: the event queue of a session is bounded: the number of events
\* queued on a session and not yet delivered never exceeds a fixed
\* capacity, however many POST /message arrive before the stream takes
\* an event.
C33_BoundedQueue ==
    \A id \in DOMAIN sse_objects :
        Len(sse_objects[id].queue) <= QueueCapacity


\* The step ends an enhance() call for which a contacted model answered
Produces ==
    /\ e_event' # NoneObj
    /\ e_event'.step = "done"
    /\ e_event'.produced

\* C34: when a model answered, the model field of the result and the model
\* of the entry cached for the prompt name the model that answered, the
\* last one contacted, also when it is a fallback model and not the rule's.
C34_ProducingModel ==
    [][Produces
       => LET producer == e_event'.contacted[Len(e_event'.contacted)]
              h == hash_prompt(e_event'.prompt)
          IN  /\ e_event'.result.model = producer
              /\ h \in Keys(cache'.exact_cache)
              /\ Item(cache'.exact_cache, h).model = producer]_vars

\* When the model that answered is the rule's model, the result and the
\* cached entry name it.
C34_RuleModelProduced ==
    [][(/\ Produces
        /\ e_event'.contacted[Len(e_event'.contacted)] = e_event'.rule.model)
       => /\ e_event'.result.model = e_event'.rule.model
          /\ Item(cache'.exact_cache, hash_prompt(e_event'.prompt)).model
                = e_event'.rule.model]_vars


\* The state of breaker b agrees with its failure counter
StateMatchesCounter(b) ==
    /\ b.state = "CLOSED" => b.failures < b.failure_threshold
    /\ b.state \in {"OPEN", "HALF_OPEN"}
       => /\ b.failures >= b.failure_threshold
          /\ b.last_failure # None

\* C35: whatever record_success, record_failure, can_execute and reset
\* calls were made, a CLOSED breaker has fewer failures than its threshold
\* and an OPEN or HALF_OPEN breaker has at least as many and a last_failure
\* time; can_execute changes nothing but the state, and that only from
\* OPEN to HALF_OPEN.
C35_StateCounter ==
    [][/\ StateMatchesCounter(breaker)
       /\ StateMatchesCounter(breaker')
       /\ b_op' = "can_execute"
          => \/ breaker' = breaker
             \/ /\ breaker.state = "OPEN"
                /\ breaker' = [breaker EXCEPT !.state = "HALF_OPEN"]]_vars

\* C35's case: a breaker that has recorded a success and, later, more
\* failures than its threshold has gone from OPEN to HALF_OPEN in a
\* can_execute.
C35_Witness ==
    /\ breaker.state = "HALF_OPEN"
    /\ b_op = "can_execute"
    /\ b_pre.state = "OPEN"
    /\ breaker.failures > breaker.failure_threshold
    /\ breaker.last_success # None


\* The L1 cache of c holds at most max_size entries and total_entries is
\* their number
SizeOk(c) ==
    /\ Len(c.exact_cache) <= c.max_size
    /\ c.stats.total_entries = Len(c.exact_cache)

\* The step is a put of prompt q
PutOf(q) == CacheStep("put") /\ c_event'.prompt = q

\* After any get, put and clear the L1 cache holds at most max_size
\* entries and total_entries is their number; a put of a prompt that is
\* not cached evicts at most one entry.
C36_SizeBound ==
    [][/\ SizeOk(cache)
       /\ SizeOk(cache')
       /\ \A q \in Prompts :
             (PutOf(q) /\ hash_prompt(q) \notin Keys(cache.exact_cache))
             => Cardinality(Keys(cache.exact_cache)
                            \ Keys(cache'.exact_cache)) <= 1]_vars

\* C36: the L1 cache holds at most max_size entries and total_entries is
\* their number; a put of a prompt that is not cached evicts at most one
\* entry; a put of a prompt that is already cached replaces its entry and
\* evicts no other prompt.
C36_SizeInvariant ==
    [][/\ SizeOk(cache)
       /\ SizeOk(cache')
       /\ \A q \in Prompts :
             PutOf(q)
             => IF hash_prompt(q) \in Keys(cache.exact_cache)
                THEN Keys(cache'.exact_cache) = Keys(cache.exact_cache)
                ELSE Cardinality(Keys(cache.exact_cache)
                                 \ Keys(cache'.exact_cache)) <= 1]_vars


\* C37: restart_count stays between 0 and max_restarts and no step of a
\* call lowers it, a call that returns a response included; the adapter
\* never spawns more children than the one of start() plus one for each
\* restart counted, so at most 1 + max_restarts over its lifetime.
C37_RestartBudget ==
    [][/\ restart_count \in 0..max_restarts
       /\ restart_count' \in 0..max_restarts
       /\ restart_count' >= restart_count
       /\ s_spawns' >= s_spawns
       /\ s_spawns' <= 1 + restart_count'
       /\ s_spawns' <= 1 + max_restarts]_vars

\* C37's case: the adapter has used its whole budget, 1 + max_restarts
\* children, and a call has returned a response afterwards.
C37_Witness ==
    /\ restart_count = max_restarts
    /\ s_spawns = 1 + max_restarts
    /\ s_event # NoneObj
    /\ s_event.kind = "return"


\* C38: under every interleaving of connect, message, disconnect and the
\* end of a stream, every registered session is active and is one that
\* sse_connect created under that id; a closed session is not registered;
\* and taking a session out of the registry never raises, neither in a
\* DELETE nor in the teardown of a stream whose session a DELETE has
\* already removed.
C38_RegistryInvariant ==
    /\ sessions \subseteq DOMAIN sse_objects
    /\ \A id \in DOMAIN sse_objects :
          /\ id \in sessions => sse_objects[id].active
          /\ ~sse_objects[id].active => id \notin sessions
          /\ sse_pump[id] # "raised"
    /\ sse_event # NoneObj => sse_event.status # "KeyError"

\* C38's case: a DELETE has removed a session whose stream was running,
\* the stream has ended afterwards, and another session is still
\* registered.
C38_Witness ==
    /\ sse_event # NoneObj
    /\ sse_event.op = "disconnect"
    /\ sse_event.status = "closed"
    /\ sse_pump[sse_event.session_id] = "done"
    /\ Len(sse_delivered[sse_event.session_id]) > 0
    /\ sessions # {}


\* The texts the model service returns, as enhance() hands them on
ModelTexts ==
    {strip(o.body.response) :
       o \in {x \in PostOutcomes :
                x.kind = "ok" /\ "response" \in DOMAIN x.body}}

\* The step ends an enhance() call that missed the cache and for which no
\* model answered
EndsUnanswered ==
    /\ TriesModels
    /\ e_event'.step = "done"
    /\ ~e_event'.produced

\* When a model answered, the response cached for the prompt is a text
\* that a model returned.
C39_AnsweredCachesText ==
    [][Produces
       => Item(cache'.exact_cache,
               hash_prompt(e_event'.prompt)).response \in ModelTexts]_vars

\* An enhance() call that ends with an error leaves the L1 cache as it is.
C39_ErrorNotCached ==
    [][(EndsUnanswered /\ "error" \in DOMAIN e_event'.result)
       => cache'.exact_cache = cache.exact_cache]_vars

\* C39: a failed enhancement is never cached: every response in the cache
\* is a text that a model returned, and a call for which no candidate
\* produced a response (every request failed, or every candidate was
\* skipped for the context limit) leaves the cache entries as they are.
C39_FailedNeverCached ==
    [][/\ \A i \in DOMAIN cache'.exact_cache :
             cache'.exact_cache[i].entry.response \in ModelTexts
       /\ EndsUnanswered => cache'.exact_cache = cache.exact_cache]_vars

\* The step in which the call of task t ends, by a return or by an
\* exception
Leaves(t) ==
    /\ s_calls[t].pc \in {"locked", "draining", "reading"}
    /\ s_calls'[t].pc = "idle"

\* Every exit of a call releases the mutex: the lock is free afterwards or
\* has passed to the call that waited longest, which is then past the lock.
C40_ExitsRelease ==
    [][\A t \in Tasks :
          Leaves(t)
          => /\ lock' = release(lock)
             /\ lock'.owner # t
             /\ lock'.owner # "" => s_calls'[lock'.owner].pc = "locked"]_vars

\* A call is suspended in drain()
Draining == \E u \in Tasks : s_calls[u].pc = "draining"

\* Every call ends, or some call is suspended in drain(): a child that
\* hangs without answering, or that exits, does not keep a call.
C40_EndsUnlessDraining ==
    \A t \in Tasks :
        [](s_calls[t].pc # "idle" => <>(s_calls[t].pc = "idle" \/ Draining))

\* C40: every StdioAdapter.call eventually returns a response or raises,
\* the mutex released, so that a call queued behind it gets the lock and
\* ends too, whatever the child does (hangs, stops reading its stdin,
\* exits): every task that is in a call or waits for the lock is eventually
\* out of its call.
C40_CallTerminates ==
    \A t \in Tasks :
        [](s_calls[t].pc # "idle" => <>(s_calls[t].pc = "idle"))

====
